---------------------------- MODULE Spec2Model ----------------------------
(***************************************************************************)
(* A model of the container library: the hash table with chained buckets   *)
(* (HashTable.c++), the growable array its bucket arrays are made of       *)
(* (DynamicArray.c++, List.c++, Array.c++), the bucket chains              *)
(* (LinkedList.c++) and the hashing algorithm                              *)
(* (Algorithms/MurmurHashingAlgorithm.c++).                                *)
(***************************************************************************)
EXTENDS Integers, Sequences, FiniteSets, TLC

(***************************************************************************)
(* 64-bit two's complement integers (the C++ type long).                   *)
(* A long is a sequence of 8 bytes, least significant byte first; every    *)
(* intermediate number below stays under 2^31.                             *)
(***************************************************************************)

LongBytes == 1..8

\* Bitwise exclusive or of two naturals.
RECURSIVE XorNat(_, _)
XorNat(a, b) ==
    IF a = 0 THEN b
    ELSE IF b = 0 THEN a
    ELSE ((a + b) % 2) + 2 * XorNat(a \div 2, b \div 2)

\* The long holding the integer n (|n| < 2^31), sign-extended to 64 bits.
LongOfInt(n) ==
    LET m == IF n >= 0 THEN n ELSE -n - 1
        low == [i \in LongBytes |-> IF i <= 4 THEN (m \div (256 ^ (i - 1))) % 256 ELSE 0]
    IN  [i \in LongBytes |-> IF n >= 0 THEN low[i] ELSE 255 - low[i]]

\* x ^ y on longs.
LongXor(x, y) == [i \in LongBytes |-> XorNat(x[i], y[i])]

\* The bytes i.. of x * k (mod 2^64), for a small non-negative k.
RECURSIVE LongMulFrom(_, _, _, _)
LongMulFrom(x, k, i, carry) ==
    IF i > 8 THEN <<>>
    ELSE LET t == x[i] * k + carry
         IN  <<t % 256>> \o LongMulFrom(x, k, i + 1, t \div 256)

\* x * k on longs (wrapping at 64 bits).
LongMul(x, k) == LongMulFrom(x, k, 1, 0)

\* x & LONG_MAX: the sign bit cleared.
LongAndMax(x) == [x EXCEPT ![8] = x[8] % 128]

\* x < 0 on longs.
LongIsNegative(x) == x[8] >= 128

\* x >> bits on longs, the arithmetic shift of a signed value (bits a multiple of 8).
LongShiftRight(x, bits) ==
    LET n == bits \div 8
    IN  [i \in LongBytes |->
            IF i + n <= 8 THEN x[i + n]
            ELSE IF LongIsNegative(x) THEN 255 ELSE 0]

\* (size_t)x % m: the long read as an unsigned 64-bit number, modulo a small m > 0.
RECURSIVE LongModFrom(_, _, _, _)
LongModFrom(x, m, i, r) ==
    IF i = 0 THEN r
    ELSE LongModFrom(x, m, i - 1, (r * 256 + x[i]) % m)

LongMod(x, m) == LongModFrom(x, m, 8, 0)

\* A value converted to the 16-bit type short.
ToShort(v) == ((v + 32768) % 65536) - 32768

(***************************************************************************)
(* Algorithms/MurmurHashingAlgorithm.c++                                   *)
(***************************************************************************)

BASE == 2
BIT_COUNT_IN_BYTE == 4
PRIME == 2003
SHIFTING_RATE == 24

\* std::to_string(n).length()
RECURSIVE DecimalLength(_)
DecimalLength(n) ==
    IF n < 0 THEN 1 + DecimalLength(-n)
    ELSE IF n < 10 THEN 1
    ELSE 1 + DecimalLength(n \div 10)

\* ToBinary: the binary digits of value, most significant first; empty for 0.
RECURSIVE ToBinary(_)
ToBinary(value) ==
    IF value = 0 THEN <<>>
    ELSE ToBinary(value \div BASE) \o <<value % BASE>>

\* ToDecimal: the number a string of binary digits denotes.
RECURSIVE ToDecimal(_)
ToDecimal(value) ==
    IF Len(value) = 0 THEN 0
    ELSE Head(value) * (2 ^ (Len(value) - 1)) + ToDecimal(Tail(value))

\* std::string::substr(pos, len): at most len characters from 0-based pos.
Substr(s, pos, len) ==
    SubSeq(s, pos + 1, IF pos + len <= Len(s) THEN pos + len ELSE Len(s))

\* ToByteArray: the binary digits cut, from the most significant end, into
\* chunks of BIT_COUNT_IN_BYTE digits (the last chunk holds what is left).
ToByteArray(value) ==
    LET binaryValue == ToBinary(value)
        byteCount == (Len(binaryValue) + BIT_COUNT_IN_BYTE - 1) \div BIT_COUNT_IN_BYTE
    IN  [i \in 1..byteCount |->
            ToDecimal(Substr(binaryValue, (i - 1) * BIT_COUNT_IN_BYTE, BIT_COUNT_IN_BYTE))]

\* The loop body's three assignments to the short `byte`.
MixByte(byte) ==
    LET b1 == ToShort(byte * PRIME)
        b2 == ToShort(XorNat(b1, b1 \div (2 ^ SHIFTING_RATE)))
    IN  ToShort(b2 * PRIME)

\* The mixing loop over bytes[i..].
RECURSIVE MixFrom(_, _, _)
MixFrom(bytes, i, hashValue) ==
    IF i > Len(bytes) THEN hashValue
    ELSE MixFrom(bytes, i + 1,
                 LongXor(LongAndMax(LongMul(hashValue, PRIME)),
                         LongOfInt(MixByte(bytes[i]))))

\* A mutant of InitialHashValue: the bare seed, no digit count mixed in.
InitialHashValueBareSeed(rawHashing, seed) == LongOfInt(seed)

\* A mutant of InitialHashValue: the seed mixed with the number of bytes the
\* loop goes through.
InitialHashValueFromBytes(rawHashing, seed) ==
    LongXor(LongOfInt(seed), LongOfInt(Len(ToByteArray(rawHashing))))

\* The accumulator before the loop: seed ^ std::to_string(rawHashing).length().
InitialHashValue(rawHashing, seed) ==
    LongXor(LongOfInt(seed), LongOfInt(DecimalLength(rawHashing)))

\* A mutant of Avalanche: the closing statements left out.
AvalancheOmitted(hashValue) == hashValue

\* The three closing statements.
Avalanche(hashValue) ==
    LET h1 == LongXor(hashValue, LongShiftRight(hashValue, SHIFTING_RATE))
        h2 == LongAndMax(LongMul(h1, PRIME))
    IN  LongXor(h2, LongShiftRight(h2, SHIFTING_RATE))

MurmurHashingAlgorithm(rawHashing, seed) ==
    Avalanche(MixFrom(ToByteArray(rawHashing), 1, InitialHashValue(rawHashing, seed)))

(***************************************************************************)
(* Bounds of the model.                                                    *)
(***************************************************************************)

MaxKey == 2         \* key values are 1..MaxKey
MaxAddr == 2        \* the key objects the caller passes live at MaxAddr addresses
MaxCapacity == 1    \* the constructor's capacity argument
MaxModifier == 2    \* its capacityModifier argument
MaxSeed == 1        \* its hashingSeed argument, when not the default 0
MaxCalls == 3       \* calls of Set, Get and Has made on one table
MaxGrowths == 2     \* runs of the growth step that pass its occupancy test

KeyValues == 1..MaxKey

\* The stored values: the table only copies them, so two tell an overwrite
\* from a stale entry.
Values == {"v1", "v2"}

\* sizeof(key) for TKey = int.
SizeofKey == 4

\* Where the caller's key objects live: consecutive int variables.
KeyAddresses == {SizeofKey * (1024 + i) : i \in 1..MaxAddr}

(***************************************************************************)
(* LinkedList.c++, as the table uses it: a bucket chain is the sequence of *)
(* the Data of its nodes from head to tail, and a node is named by its     *)
(* position in the chain (NullNode for nullptr). The chains of a table are *)
(* built with ImprovableSearch = false, so a search never reorders them.   *)
(***************************************************************************)

NullNode == 0

\* LinkedList::Add(T value): a node constructed from value, linked at the tail.
ChainAdd(chain, value) == Append(chain, value)

\* LinkedList::FindFirstNode: the first node from the head whose Data == value.
FindFirstNode(chain, value) ==
    IF \E p \in 1..Len(chain) : chain[p] = value
    THEN CHOOSE p \in 1..Len(chain) :
            /\ chain[p] = value
            /\ \A q \in 1..(p - 1) : chain[q] # value
    ELSE NullNode

\* LinkedList::IndexOf: the 0-based index of a node of the chain, or -1.
IndexOf(chain, node) == IF node \in 1..Len(chain) THEN node - 1 ELSE -1

\* LinkedList::ValidateBoundaries: TRUE when the index passes, FALSE when it throws.
ChainValidateBoundaries(chain, index) == index >= 0 /\ index < Len(chain)

\* LinkedList::NodeAt: the node at a validated index.
NodeAt(chain, index) == index + 1

(***************************************************************************)
(* DynamicArray.c++ / List.c++ / Array.c++, as the table uses them: a List *)
(* of chains is its capacity, capacityModifier, count and its backing      *)
(* Array, a function from 0..capacity-1 to chains.                         *)
(***************************************************************************)

DynamicArray_INITIAL_CAPACITY == 200

EmptyChain == <<>>

\* What new T[length] leaves in a slot of an Array<int>: an indeterminate value.
\* No operation of the model reads a slot that holds it.
Indeterminate == 0

\* Array<T>(length): data(new T[length]), each slot holding `blank`.
NewArrayOf(length, blank) == [i \in 0..(length - 1) |-> blank]

\* Array<T>(length) for a chain type: length default-constructed elements.
NewArray(length) == NewArrayOf(length, EmptyChain)

\* A mutant of ResizeOf: the new Array allocated, nothing copied into it.
ResizeOfNoCopy(array, length, blank) == [i \in 0..(length - 1) |-> blank]

\* Array::Resize(length): the overlapping prefix copied into Array<T>(length).
ResizeOf(array, length, blank) ==
    [i \in 0..(length - 1) |-> IF i \in DOMAIN array THEN array[i] ELSE blank]

\* Array::Resize(length) for a chain type.
Resize(array, length) == ResizeOf(array, length, EmptyChain)

\* Array::Length
Length(array) == Cardinality(DOMAIN array)

\* Array::ValidateBoundaries: TRUE when the index passes, FALSE when it throws.
ArrayValidateBoundaries(array, index) == index \in DOMAIN array

\* DynamicArray(): capacity = capacityModifier = INITIAL_CAPACITY.
DynamicArrayDefault ==
    [capacity |-> DynamicArray_INITIAL_CAPACITY,
     capacityModifier |-> DynamicArray_INITIAL_CAPACITY,
     count |-> 0,
     array |-> NewArray(DynamicArray_INITIAL_CAPACITY)]

\* DynamicArray(capacity, capacityModifier).
DynamicArrayOf(capacity, capacityModifier) ==
    LET c == (capacity \div capacityModifier + 1) * capacityModifier
    IN  [capacity |-> c, capacityModifier |-> capacityModifier,
         count |-> 0, array |-> NewArray(c)]

\* A mutant of ExpandArrayOf: the capacity grown to the new count exactly.
ExpandArrayOfExactly(list, count, blank) ==
    IF list.count + count > list.capacity
    THEN [list EXCEPT !.count = list.count + count, !.capacity = list.count + count,
                      !.array = ResizeOf(list.array, list.count + count, blank)]
    ELSE [list EXCEPT !.count = list.count + count]

\* DynamicArray::ExpandArray(count), on a list whose new slots hold `blank`.
ExpandArrayOf(list, count, blank) ==
    LET newCount == list.count + count
        newCapacity == (newCount \div list.capacityModifier + 1) * list.capacityModifier
    IN  IF newCount > list.capacity
        THEN [list EXCEPT !.count = newCount, !.capacity = newCapacity,
                          !.array = ResizeOf(list.array, newCapacity, blank)]
        ELSE [list EXCEPT !.count = newCount]

\* DynamicArray::ExpandArray(count), on a list of chains.
ExpandArray(list, count) == ExpandArrayOf(list, count, EmptyChain)

\* A member that holds no object yet.
NoList == [capacity |-> 0, capacityModifier |-> 0, count |-> 0, array |-> <<>>]

(***************************************************************************)
(* HashTable.c++                                                           *)
(***************************************************************************)

\* Thresholds are counted in hundredths: 75 is the float 0.75F.
INITIAL_THRESHOLD == 75
HashTable_INITIAL_CAPACITY == 500

\* The arguments the model passes to the constructor.
CapacityArgs == {MaxCapacity}
ModifierArgs == {MaxModifier}
ThresholdArgs == {-25, 0, INITIAL_THRESHOLD, 100, 125}
SeedArgs == {0, MaxSeed}

VARIABLES
    pc,               \* "new": no table yet; "ready": constructed; "failed": the constructor threw
    keys,             \* HashTable::keys
    values,           \* HashTable::values
    threshold,        \* HashTable::threshold
    hashingSeed,      \* HashTable::hashingSeed
    hashedPairCount,  \* HashTable::hashedPairCount
    ret,              \* the last call: its arguments, what it returned or threw
    calls,            \* the calls of Set, Get and Has made so far
    lastSet,          \* history: the value of the latest Set of each key value
    origins,          \* history: beside each stored key, the address it was Set from
    dynamicArray,     \* a DynamicArray<int>: capacity, capacityModifier, count, array
    linkedList,       \* a LinkedList<int>: count, head, tail
    heap,             \* the Node<int> objects allocated so far, by address
    reference,        \* a second LinkedList<int>, the right-hand side of an assignment
    sparseArray       \* a SparseArray<int>: length, actualLength, sparseNodes

vars == <<pc, keys, values, threshold, hashingSeed, hashedPairCount,
          ret, calls, lastSet, origins, dynamicArray, linkedList, heap,
          reference, sparseArray>>

\* The members of the table, and the history kept beside them.
tableVars == <<keys, values, threshold, hashingSeed, hashedPairCount, lastSet, origins>>

\* The containers the table's operations never touch.
otherVars == <<dynamicArray, linkedList, heap, reference, sparseArray>>

\* A chain that holds no node, and a heap that holds no Node object.
NoChain ==
    [count |-> 0, head |-> NullNode, tail |-> NullNode, constructedNodes |-> <<>>,
     ImprovableSearch |-> FALSE]
NoHeap == <<>>

\* SparseArray(): length and actualLength are 0 and sparseNodes is an empty list.
NoSparseArray == [length |-> 0, actualLength |-> 0, sparseNodes |-> NoChain]

NoValue == "none"
NoCall == [op |-> "none"]

\* long(&key) + long(&key) + sizeof(key)
RawHashing(address) == address + address + SizeofKey

\* The hashes of the fingerprints the model meets, computed once.
HashCache ==
    [r \in {RawHashing(a) : a \in KeyAddresses}, s \in SeedArgs |->
        MurmurHashingAlgorithm(r, s)]

\* HashTable::HashingAlgorithm, by default MurmurHashingAlgorithm.
HashingAlgorithm(rawHashing, seed) == HashCache[rawHashing, seed]

\* size_t index = hashingValue % values.capacity
BucketIndex(address, seed, capacity) ==
    LongMod(HashingAlgorithm(RawHashing(address), seed), capacity)

\* A mutant of ValidateThreshold: the lower end of the range let in.
ValidateThresholdInclusive(t) == 0 <= t /\ t <= 100

\* HashTable::ValidateThreshold: TRUE when it returns, FALSE when it throws.
ValidateThreshold(t) == 0 < t /\ t <= 100

\* HashTable(): the lists the default constructor builds.
DefaultLists == DynamicArrayDefault

\* HashTable(capacity, threshold, capacityModifier, hashingAlgorithm, hashingSeed):
\* the lists it builds.
ConstructedLists(capacity, capacityModifier) == DynamicArrayOf(capacity, capacityModifier)

Returned(value) == [threw |-> "none", value |-> value]
Threw(what) == [threw |-> what, value |-> NoValue]

\* A mutant of GetOutcome: a default value for a key that is not there.
GetOutcomeDefault(ks, vs, seed, key, address) ==
    LET index == BucketIndex(address, seed, vs.capacity)
        keyNode == FindFirstNode(ks.array[index], key)
    IN  IF keyNode # NullNode
        THEN Returned(vs.array[index][keyNode])
        ELSE Returned(NoValue)

\* HashTable::Get from the pockets at index on: what it returns or throws.
GetAt(ks, vs, index, key) ==
    IF ~ArrayValidateBoundaries(ks.array, index) \/ ~ArrayValidateBoundaries(vs.array, index)
    THEN Threw("out_of_range")
    ELSE LET keyPocket == ks.array[index]
             valuePocket == vs.array[index]
             keyNode == FindFirstNode(keyPocket, key)
             keyNodeIndex == IndexOf(keyPocket, keyNode)
         IN  IF keyNode # NullNode
             THEN IF ChainValidateBoundaries(valuePocket, keyNodeIndex)
                  THEN Returned(valuePocket[NodeAt(valuePocket, keyNodeIndex)])
                  ELSE Threw("out_of_range")
             ELSE Threw("out_of_range")

\* HashTable::Get: what it returns or throws, on the table (ks, vs, seed).
GetOutcome(ks, vs, seed, key, address) ==
    GetAt(ks, vs, BucketIndex(address, seed, vs.capacity), key)

\* A mutant of HasOutcome: no try/catch around Get.
HasOutcomePropagates(ks, vs, seed, key, address) ==
    LET got == GetOutcome(ks, vs, seed, key, address)
    IN  IF got.threw = "none" THEN Returned(TRUE) ELSE Threw(got.threw)

\* HashTable::Has: try { Get(key); return true; } catch (...) { } return false;
HasOutcome(ks, vs, seed, key, address) ==
    Returned(GetOutcome(ks, vs, seed, key, address).threw = "none")

\* A mutant of SetOutcome: a new key is added without its value.
SetOutcomeKeyOnly(ks, vs, pairCount, seed, key, address, value) ==
    LET index == BucketIndex(address, seed, vs.capacity)
        keyNode == FindFirstNode(ks.array[index], key)
    IN  IF keyNode = NullNode
        THEN [keys |-> [ks EXCEPT !.array[index] = ChainAdd(ks.array[index], key)],
              values |-> vs, hashedPairCount |-> pairCount + 1, threw |-> "none"]
        ELSE IF ChainValidateBoundaries(vs.array[index], IndexOf(ks.array[index], keyNode))
        THEN [keys |-> ks, values |-> [vs EXCEPT !.array[index][keyNode] = value],
              hashedPairCount |-> pairCount, threw |-> "none"]
        ELSE [keys |-> ks, values |-> vs, hashedPairCount |-> pairCount,
              threw |-> "out_of_range"]

\* A mutant of SetOutcome: the pair count incremented on an overwrite too.
SetOutcomeCountsOverwrite(ks, vs, pairCount, seed, key, address, value) ==
    [SetOutcomeKeyOnly(ks, vs, pairCount, seed, key, address, value) EXCEPT
        !.values = IF FindFirstNode(ks.array[BucketIndex(address, seed, vs.capacity)], key)
                        = NullNode
                   THEN [vs EXCEPT !.array[BucketIndex(address, seed, vs.capacity)] =
                            ChainAdd(@, value)]
                   ELSE @,
        !.hashedPairCount = pairCount + 1]

\* A mutant of SetAt: every pair put in the first pocket.
SetAtFirstPocket(ks, vs, pairCount, index, key, value) ==
    [keys |-> [ks EXCEPT !.array[0] = ChainAdd(@, key)],
     values |-> [vs EXCEPT !.array[0] = ChainAdd(@, value)],
     hashedPairCount |-> pairCount + 1,
     threw |-> "none"]

\* A mutant of SetAt: the capacity raised by the modifier once a pair is in.
SetAtGrowing(ks, vs, pairCount, index, key, value) ==
    [keys |-> [ks EXCEPT !.array[index] = ChainAdd(@, key),
                         !.capacity = @ + ks.capacityModifier],
     values |-> [vs EXCEPT !.array[index] = ChainAdd(@, value),
                           !.capacity = @ + ks.capacityModifier],
     hashedPairCount |-> pairCount + 1,
     threw |-> "none"]

\* HashTable::Set from the pockets at index on: the members afterwards, and
\* what it threw.
SetAt(ks, vs, pairCount, index, key, value) ==
    LET thrown == [keys |-> ks, values |-> vs, hashedPairCount |-> pairCount,
                   threw |-> "out_of_range"]
    IN  IF ~ArrayValidateBoundaries(ks.array, index) \/ ~ArrayValidateBoundaries(vs.array, index)
        THEN thrown
        ELSE LET keyPocket == ks.array[index]
                 valuePocket == vs.array[index]
                 keyNode == FindFirstNode(keyPocket, key)
                 keyNodeIndex == IndexOf(keyPocket, keyNode)
             IN  IF keyNode = NullNode
                 THEN [keys |-> [ks EXCEPT !.array[index] = ChainAdd(keyPocket, key)],
                       values |-> [vs EXCEPT !.array[index] = ChainAdd(valuePocket, value)],
                       hashedPairCount |-> pairCount + 1,
                       threw |-> "none"]
                 ELSE IF ChainValidateBoundaries(valuePocket, keyNodeIndex)
                 THEN [keys |-> ks,
                       values |-> [vs EXCEPT
                                     !.array[index][NodeAt(valuePocket, keyNodeIndex)] = value],
                       hashedPairCount |-> pairCount,
                       threw |-> "none"]
                 ELSE thrown

\* HashTable::Set: the members afterwards, and what it threw.
SetOutcome(ks, vs, pairCount, seed, key, address, value) ==
    SetAt(ks, vs, pairCount, BucketIndex(address, seed, vs.capacity), key, value)

\* HashTable::AdapteCapacity: the two lists afterwards.
AdapteCapacityOutcome(ks, vs, pairCount, t) ==
    IF pairCount * 100 < t * ks.capacity
    THEN [keys |-> ks, values |-> vs]
    ELSE [keys |-> ExpandArray(ks, ks.capacityModifier),
          values |-> ExpandArray(vs, ks.capacityModifier)]

TableInit ==
    /\ pc = "new"
    /\ keys = NoList
    /\ values = NoList
    /\ threshold = 0
    /\ hashingSeed = 0
    /\ hashedPairCount = 0
    /\ ret = NoCall
    /\ calls = 0
    /\ lastSet = [k \in KeyValues |-> NoValue]
    /\ origins = <<>>
    /\ dynamicArray = NoList
    /\ linkedList = NoChain
    /\ heap = NoHeap
    /\ reference = NoChain
    /\ sparseArray = NoSparseArray

\* HashTable()
ConstructDefault ==
    /\ pc = "new"
    /\ pc' = "ready"
    /\ threshold' = INITIAL_THRESHOLD
    /\ keys' = DefaultLists
    /\ values' = DefaultLists
    /\ origins' = DefaultLists.array
    /\ ret' = [op |-> "HashTable()", threw |-> "none"]
    /\ UNCHANGED <<hashingSeed, hashedPairCount, calls, lastSet>>
    /\ UNCHANGED otherVars

\* HashTable(capacity, threshold, capacityModifier, MurmurHashingAlgorithm, hashingSeed)
Construct ==
    /\ pc = "new"
    /\ \E capacity \in CapacityArgs, t \in ThresholdArgs,
          capacityModifier \in ModifierArgs, seed \in SeedArgs :
          IF ValidateThreshold(t)
          THEN /\ pc' = "ready"
               /\ threshold' = t
               /\ keys' = ConstructedLists(capacity, capacityModifier)
               /\ values' = ConstructedLists(capacity, capacityModifier)
               /\ origins' = ConstructedLists(capacity, capacityModifier).array
               /\ hashingSeed' = seed
               /\ ret' = [op |-> "HashTable", threshold |-> t, threw |-> "none"]
          ELSE /\ pc' = "failed"
               /\ ret' = [op |-> "HashTable", threshold |-> t, threw |-> "out_of_range"]
               /\ UNCHANGED <<threshold, keys, values, origins, hashingSeed>>
    /\ UNCHANGED <<hashedPairCount, calls, lastSet>>
    /\ UNCHANGED otherVars

\* HashTable::Set(key, value), the key object living at `address`.
Set ==
    /\ pc = "ready"
    /\ calls < MaxCalls
    /\ \E key \in KeyValues, address \in KeyAddresses, value \in Values :
          LET outcome == SetOutcome(keys, values, hashedPairCount, hashingSeed,
                                    key, address, value)
              index == BucketIndex(address, hashingSeed, values.capacity)
          IN  /\ keys' = outcome.keys
              /\ values' = outcome.values
              /\ hashedPairCount' = outcome.hashedPairCount
              /\ ret' = [op |-> "Set", key |-> key, address |-> address,
                         threw |-> outcome.threw, value |-> value]
              /\ lastSet' = IF outcome.threw = "none"
                            THEN [lastSet EXCEPT ![key] = value]
                            ELSE lastSet
              /\ origins' = IF outcome.hashedPairCount > hashedPairCount
                            THEN [origins EXCEPT ![index] = Append(@, address)]
                            ELSE origins
    /\ calls' = calls + 1
    /\ UNCHANGED <<pc, threshold, hashingSeed>>
    /\ UNCHANGED otherVars

\* HashTable::Get(key), the key object living at `address`.
Get ==
    /\ pc = "ready"
    /\ calls < MaxCalls
    /\ \E key \in KeyValues, address \in KeyAddresses :
          LET outcome == GetOutcome(keys, values, hashingSeed, key, address)
          IN  ret' = [op |-> "Get", key |-> key, address |-> address,
                      threw |-> outcome.threw, value |-> outcome.value]
    /\ calls' = calls + 1
    /\ UNCHANGED <<pc, keys, values, threshold, hashingSeed, hashedPairCount,
                   lastSet, origins>>
    /\ UNCHANGED otherVars

\* HashTable::Has(key), the key object living at `address`.
Has ==
    /\ pc = "ready"
    /\ calls < MaxCalls
    /\ \E key \in KeyValues, address \in KeyAddresses :
          LET outcome == HasOutcome(keys, values, hashingSeed, key, address)
          IN  ret' = [op |-> "Has", key |-> key, address |-> address,
                      threw |-> outcome.threw, value |-> outcome.value]
    /\ calls' = calls + 1
    /\ UNCHANGED <<pc, keys, values, threshold, hashingSeed, hashedPairCount,
                   lastSet, origins>>
    /\ UNCHANGED otherVars

\* HashTable::AdapteCapacity(), the private growth step. No member function
\* calls it; GrowSpec runs it between the calls, as a Set that ended with it would.
AdapteCapacity ==
    /\ pc = "ready"
    /\ keys.count < MaxGrowths * keys.capacityModifier
    /\ LET outcome == AdapteCapacityOutcome(keys, values, hashedPairCount, threshold)
       IN  /\ keys' = outcome.keys
           /\ values' = outcome.values
           /\ origins' = Resize(origins, outcome.keys.capacity)
    /\ ret' = [op |-> "AdapteCapacity", capacity |-> keys.capacity,
               over |-> hashedPairCount * 100 > threshold * keys.capacity]
    /\ UNCHANGED <<pc, threshold, hashingSeed, hashedPairCount, calls, lastSet>>
    /\ UNCHANGED otherVars

Init == TableInit

Next ==
    \/ ConstructDefault
    \/ Construct
    \/ Set
    \/ Get
    \/ Has

\* The table as its callers can drive it.
Spec == Init /\ [][Next]_vars

GrowNext ==
    \/ Next
    \/ AdapteCapacity

\* The table with its growth step run between the calls.
GrowSpec == Init /\ [][GrowNext]_vars

(***************************************************************************)
(* Properties of the hash table.                                           *)
(***************************************************************************)

\* Where the key value k is stored: <<bucket, position>> pairs.
Positions(ks, k) ==
    {ip \in UNION {{<<i, p>> : p \in 1..Len(ks.array[i])} : i \in DOMAIN ks.array} :
        ks.array[ip[1]][ip[2]] = k}

\* C1: any two distinct key values that were each Set are returned by Get with
\* the value of their latest Set, whatever the order of the Sets, whichever key
\* objects the caller passes and whether or not the two share a bucket.
CollisionCorrectness ==
    \A k1, k2 \in KeyValues :
        (k1 # k2 /\ lastSet[k1] # NoValue /\ lastSet[k2] # NoValue) =>
            \A a1, a2 \in KeyAddresses :
                /\ GetOutcome(keys, values, hashingSeed, k1, a1) = Returned(lastSet[k1])
                /\ GetOutcome(keys, values, hashingSeed, k2, a2) = Returned(lastSet[k2])

\* C2: a Set(k, v2) that directly follows a Set(k, v1) leaves exactly one entry
\* for k, holding v2, and the same pair count as after the first Set.
OverwriteNotDuplicate ==
    [][(/\ ret.op = "Set"
        /\ ret'.op = "Set"
        /\ calls' = calls + 1
        /\ ret'.key = ret.key)
       => (/\ Cardinality(Positions(keys', ret.key)) = 1
           /\ \A ip \in Positions(keys', ret.key) :
                 values'.array[ip[1]][ip[2]] = ret'.value
           /\ hashedPairCount' = hashedPairCount)]_vars

\* C3: no key value is stored in more than one entry of the table.
KeyPresentAtMostOnce ==
    pc = "ready" => \A k \in KeyValues : Cardinality(Positions(keys, k)) <= 1

\* C4: after every Set, pairCount / bucketCount is at most the threshold.
OccupancyWithinThreshold ==
    (pc = "ready" /\ ret.op = "Set") =>
        hashedPairCount * 100 <= threshold * keys.capacity

\* C5: when the growth step runs with the occupancy over the threshold, both
\* bucket arrays grow by the capacity modifier and every stored pair sits in
\* the bucket its fingerprint hashes to under the new bucket count, where Get
\* finds it.
GrowthRehashes ==
    (ret.op = "AdapteCapacity" /\ ret.over) =>
        /\ keys.capacity = ret.capacity + keys.capacityModifier
        /\ values.capacity = ret.capacity + keys.capacityModifier
        /\ \A i \in DOMAIN keys.array : \A p \in 1..Len(keys.array[i]) :
              /\ BucketIndex(origins[i][p], hashingSeed, keys.capacity) = i
              /\ GetOutcome(keys, values, hashingSeed, keys.array[i][p], origins[i][p])
                    = Returned(values.array[i][p])

\* C6: a Get of a key value that was never Set throws out_of_range and leaves
\* the chains and the pair count as they were.
GetOfAbsentKeyFails ==
    [][(/\ ret'.op = "Get"
        /\ calls' = calls + 1
        /\ lastSet[ret'.key] = NoValue)
       => (/\ ret'.threw = "out_of_range"
           /\ keys' = keys
           /\ values' = values
           /\ hashedPairCount' = hashedPairCount)]_vars

\* C6 witness: on a table that holds a pair, a Get of a key never Set threw.
GetOfAbsentKeyFailed ==
    /\ ret.op = "Get"
    /\ lastSet[ret.key] = NoValue
    /\ ret.threw = "out_of_range"
    /\ hashedPairCount > 0

DefaultConstruction ==
    ret.op = "HashTable()" =>
        /\ keys.capacity = HashTable_INITIAL_CAPACITY
        /\ keys.capacityModifier = DynamicArray_INITIAL_CAPACITY
        /\ threshold = INITIAL_THRESHOLD
        /\ hashingSeed = 0

\* C10: in every bucket the key chain and the value chain have the same length.
Lockstep ==
    pc = "ready" =>
        /\ DOMAIN keys.array = DOMAIN values.array
        /\ \A i \in DOMAIN keys.array : Len(keys.array[i]) = Len(values.array[i])

\* C10 witness: after a Set, a bucket holds a chain of two pairs.
ChainOfTwo ==
    /\ ret.op = "Set"
    /\ \E i \in DOMAIN keys.array : Len(keys.array[i]) = 2 /\ Len(values.array[i]) = 2

\* The nodes of a list of chains, as <<bucket, position>> pairs.
ChainNodes(list) ==
    UNION {{<<i, p>> : p \in 1..Len(list.array[i])} : i \in DOMAIN list.array}

\* C11: the pair count of a constructed table is the sum of the lengths of
\* all its key chains.
PairCountIsChainSum ==
    pc = "ready" => hashedPairCount = Cardinality(ChainNodes(keys))

\* C11 witness: after a Set the table holds two pairs, and counts two.
TwoPairsCounted ==
    /\ ret.op = "Set"
    /\ hashedPairCount = 2
    /\ Cardinality(ChainNodes(keys)) = 2

(***************************************************************************)
(* DynamicArray.c++ with T = int.                                          *)
(*                                                                         *)
(* A size_t argument is modelled in a window around 0: n >= 0 is the value *)
(* n and n < 0 is the value 2^64 + n, so that -1 is SIZE_MAX. Inside the   *)
(* window +, - and the conversions of the code agree with the integers,    *)
(* and < is the unsigned comparison SizeLess.                              *)
(***************************************************************************)

MaxArrayCapacity == 1   \* the capacity argument of the constructor
MaxIncrement == 2       \* its capacityModifier argument
MaxLength == 2          \* the length of an Array or of a range passed to a call
MaxCount == 3           \* no adding call is made that would store more elements
MaxWrap == 1            \* index arguments reach down to SIZE_MAX - (MaxWrap - 1)
MaxArrayCalls == 3      \* calls made on one DynamicArray

\* The elements stored: the DynamicArray only copies them, so two tell a
\* moved element from a lost one.
Elements == {1, 2}
ArrayCapacityArgs == {0, MaxArrayCapacity}
IncrementArgs == 1..MaxIncrement
\* The Arrays passed to a constructor or a range call: one of each length,
\* as the DynamicArray copies their elements without looking at them.
ArrayArgs == {[i \in 0..(n - 1) |-> (i % 2) + 1] : n \in 0..MaxLength}
IndexArgs == (0..MaxCount) \cup {-w : w \in 1..MaxWrap}
CountArgs == (0..MaxLength) \cup {-w : w \in 1..MaxWrap}

\* a < b on size_t.
SizeLess(a, b) == IF (a < 0) = (b < 0) THEN a < b ELSE b < 0

\* The outcome of a call: the object afterwards and what the call threw.
Done(list) == [list |-> list, threw |-> "none"]
Refused(list) == [list |-> list, threw |-> "out_of_range"]

\* DynamicArray<int>()
IntArrayDefault ==
    [DynamicArrayDefault EXCEPT
        !.array = NewArrayOf(DynamicArray_INITIAL_CAPACITY, Indeterminate)]

\* DynamicArray<int>(capacity, capacityModifier)
IntArrayOf(capacity, capacityModifier) ==
    [DynamicArrayOf(capacity, capacityModifier) EXCEPT
        !.array = NewArrayOf((capacity \div capacityModifier + 1) * capacityModifier,
                             Indeterminate)]

\* DynamicArray<int>(array, capacityModifier), and through it
\* DynamicArray<int>(length, data, capacityModifier).
IntArrayFrom(array, capacityModifier) ==
    LET c == (Length(array) \div capacityModifier + 1) * capacityModifier
    IN  [capacity |-> c, capacityModifier |-> capacityModifier,
         count |-> Length(array), array |-> ResizeOf(array, c, Indeterminate)]

\* DynamicArray::ValidateBoundaries: TRUE when the index passes, FALSE when it throws.
ValidateBoundaries(list, index) == SizeLess(index, list.count)

\* The loop of DynamicArray::Shift, from i down to start.
RECURSIVE ShiftFrom(_, _, _, _)
ShiftFrom(array, start, steps, i) ==
    LET moved == [array EXCEPT ![i + steps] = array[i]]
    IN  IF i = 0 \/ i - 1 < start THEN moved ELSE ShiftFrom(moved, start, steps, i - 1)

\* DynamicArray::Shift(start, steps), called with start < count.
Shift(list, start, steps) ==
    LET expanded == ExpandArrayOf(list, steps, Indeterminate)
        first == expanded.count - steps - 1
    IN  IF SizeLess(first, start)
        THEN expanded
        ELSE [expanded EXCEPT !.array = ShiftFrom(expanded.array, start, steps, first)]

\* The loop of DynamicArray::Unshift, from i up to count: each access goes
\* through Array::operator[], which throws on an index outside the Array.
RECURSIVE UnshiftFrom(_, _, _, _)
UnshiftFrom(array, count, steps, i) ==
    IF ~SizeLess(i, count)
    THEN [array |-> array, threw |-> "none"]
    ELSE IF ~ArrayValidateBoundaries(array, i) \/ ~ArrayValidateBoundaries(array, i - steps)
    THEN [array |-> array, threw |-> "out_of_range"]
    ELSE UnshiftFrom([array EXCEPT ![i - steps] = array[i]], count, steps, i + 1)

\* DynamicArray::Unshift(start, steps)
Unshift(list, start, steps) ==
    LET looped == UnshiftFrom(list.array, list.count, steps, start + steps)
    IN  IF looped.threw = "none"
        THEN Done([list EXCEPT !.array = looped.array, !.count = list.count - steps])
        ELSE Refused([list EXCEPT !.array = looped.array])

\* The loop of DynamicArray::AddRange and InsertRange: array[i] written at first + i.
WriteRange(target, array, first) ==
    [k \in DOMAIN target |->
        IF k - first \in DOMAIN array THEN array[k - first] ELSE target[k]]

\* DynamicArray::Add(element)
AddOutcome(list, element) ==
    LET expanded == ExpandArrayOf(list, 1, Indeterminate)
    IN  Done([expanded EXCEPT !.array[expanded.count - 1] = element])

\* DynamicArray::AddRange(array)
AddRangeOutcome(list, array) ==
    LET expanded == ExpandArrayOf(list, Length(array), Indeterminate)
    IN  Done([expanded EXCEPT
                !.array = WriteRange(expanded.array, array, expanded.count - Length(array))])

\* A mutant of InsertOutcome: the new element written before the shift.
InsertOutcomeWriteFirst(list, element, index) ==
    IF index = list.count \/ (index = 0 /\ list.count = 0)
    THEN AddOutcome(list, element)
    ELSE IF ~ValidateBoundaries(list, index)
    THEN Refused(list)
    ELSE Done(Shift([list EXCEPT !.array[index] = element], index, 1))

\* DynamicArray::Insert(element, index)
InsertOutcome(list, element, index) ==
    IF index = list.count \/ (index = 0 /\ list.count = 0)
    THEN AddOutcome(list, element)
    ELSE IF ~ValidateBoundaries(list, index)
    THEN Refused(list)
    ELSE Done([Shift(list, index, 1) EXCEPT !.array[index] = element])

\* DynamicArray::InsertRange(array, index)
InsertRangeOutcome(list, array, index) ==
    IF index = list.count \/ (index = 0 /\ list.count = 0)
    THEN AddRangeOutcome(list, array)
    ELSE IF ~ValidateBoundaries(list, index)
    THEN Refused(list)
    ELSE LET shifted == Shift(list, index, Length(array))
         IN  Done([shifted EXCEPT !.array = WriteRange(shifted.array, array, index)])

\* A mutant of RemoveAtOutcome: the count decremented, nothing moved.
RemoveAtOutcomeNoMove(list, index) ==
    IF ~ValidateBoundaries(list, index)
    THEN Refused(list)
    ELSE Done([list EXCEPT !.count = list.count - 1])

\* DynamicArray::RemoveAt(index)
RemoveAtOutcome(list, index) ==
    IF ~ValidateBoundaries(list, index)
    THEN Refused(list)
    ELSE Unshift(list, index, 1)

\* DynamicArray::RemoveRange(index, count)
RemoveRangeOutcome(list, index, count) ==
    IF list.count = 0 /\ index = 0 /\ count = 0
    THEN Done(list)
    ELSE IF ~ValidateBoundaries(list, index) \/ ~ValidateBoundaries(list, index + count - 1)
    THEN Refused(list)
    ELSE Unshift(list, index, count)

\* DynamicArray::Clear()
ClearOutcome(list) == RemoveRangeOutcome(list, 0, list.count)

\* A mutant of SubscriptOutcome: the index checked against the capacity.
SubscriptOutcomeByCapacity(list, index) ==
    IF ~ArrayValidateBoundaries(list.array, index)
    THEN Threw("out_of_range")
    ELSE Returned(list.array[index])

\* DynamicArray::operator[](index): the element it returns, or what it throws.
SubscriptOutcome(list, index) ==
    IF ~ValidateBoundaries(list, index) \/ ~ArrayValidateBoundaries(list.array, index)
    THEN Threw("out_of_range")
    ELSE Returned(list.array[index])

\* The elements a DynamicArray holds, in order: positions 0..count-1.
Stored(list) == [k \in 1..list.count |-> list.array[k - 1]]

\* What every call on the DynamicArray leaves alone.
ArrayFrame == UNCHANGED <<pc, tableVars, linkedList, heap, reference, sparseArray>>

\* What a call records: its name and arguments, what it threw, and the
\* count and capacity it found. An Add also records the elements it found,
\* and a RemoveAt whether it follows an Add that reallocated.
Call(op, args, threw) ==
    [op |-> op, args |-> args, threw |-> threw,
     count |-> dynamicArray.count, capacity |-> dynamicArray.capacity]

\* DynamicArray<int>()
NewDefault ==
    /\ pc = "new"
    /\ pc' = "ready"
    /\ dynamicArray' = IntArrayDefault
    /\ ret' = [op |-> "DynamicArray()", threw |-> "none"]
    /\ UNCHANGED <<tableVars, linkedList, heap, reference, sparseArray, calls>>

\* DynamicArray<int>(capacity, capacityModifier)
NewOfCapacity ==
    /\ pc = "new"
    /\ pc' = "ready"
    /\ \E capacity \in ArrayCapacityArgs, capacityModifier \in IncrementArgs :
          /\ dynamicArray' = IntArrayOf(capacity, capacityModifier)
          /\ ret' = [op |-> "DynamicArray(capacity)", capacity |-> capacity, threw |-> "none"]
    /\ UNCHANGED <<tableVars, linkedList, heap, reference, sparseArray, calls>>

\* DynamicArray<int>(array, capacityModifier)
NewFromArray ==
    /\ pc = "new"
    /\ pc' = "ready"
    /\ \E array \in ArrayArgs, capacityModifier \in IncrementArgs :
          /\ dynamicArray' = IntArrayFrom(array, capacityModifier)
          /\ ret' = [op |-> "DynamicArray(array)", threw |-> "none"]
    /\ UNCHANGED <<tableVars, linkedList, heap, reference, sparseArray, calls>>

\* DynamicArray::Add(element)
Add ==
    /\ pc = "ready"
    /\ calls < MaxArrayCalls
    /\ dynamicArray.count + 1 <= MaxCount
    /\ \E element \in Elements :
          LET outcome == AddOutcome(dynamicArray, element)
          IN  /\ dynamicArray' = outcome.list
              /\ ret' = Call("Add", <<element>>, outcome.threw)
                            @@ [before |-> Stored(dynamicArray)]
    /\ calls' = calls + 1
    /\ ArrayFrame

\* DynamicArray::AddRange(array)
AddRange ==
    /\ pc = "ready"
    /\ calls < MaxArrayCalls
    /\ \E array \in ArrayArgs :
          /\ dynamicArray.count + Length(array) <= MaxCount
          /\ LET outcome == AddRangeOutcome(dynamicArray, array)
             IN  /\ dynamicArray' = outcome.list
                 /\ ret' = Call("AddRange", <<array>>, outcome.threw)
    /\ calls' = calls + 1
    /\ ArrayFrame

\* DynamicArray::Insert(element, index)
Insert ==
    /\ pc = "ready"
    /\ calls < MaxArrayCalls
    /\ dynamicArray.count + 1 <= MaxCount
    /\ \E element \in Elements, index \in IndexArgs :
          LET outcome == InsertOutcome(dynamicArray, element, index)
          IN  /\ dynamicArray' = outcome.list
              /\ ret' = Call("Insert", <<element, index>>, outcome.threw)
    /\ calls' = calls + 1
    /\ ArrayFrame

\* DynamicArray::InsertRange(array, index)
InsertRange ==
    /\ pc = "ready"
    /\ calls < MaxArrayCalls
    /\ \E array \in ArrayArgs, index \in IndexArgs :
          /\ dynamicArray.count + Length(array) <= MaxCount
          /\ LET outcome == InsertRangeOutcome(dynamicArray, array, index)
             IN  /\ dynamicArray' = outcome.list
                 /\ ret' = Call("InsertRange", <<array, index>>, outcome.threw)
    /\ calls' = calls + 1
    /\ ArrayFrame

\* DynamicArray::RemoveAt(index)
RemoveAt ==
    /\ pc = "ready"
    /\ calls < MaxArrayCalls
    /\ \E index \in IndexArgs :
          LET outcome == RemoveAtOutcome(dynamicArray, index)
          IN  /\ dynamicArray' = outcome.list
              /\ ret' = Call("RemoveAt", <<index>>, outcome.threw)
                            @@ [afterGrowingAdd |->
                                   ret.op = "Add" /\ ret.capacity < dynamicArray.capacity]
    /\ calls' = calls + 1
    /\ ArrayFrame

\* DynamicArray::RemoveRange(index, count)
RemoveRange ==
    /\ pc = "ready"
    /\ calls < MaxArrayCalls
    /\ \E index \in IndexArgs, count \in CountArgs :
          LET outcome == RemoveRangeOutcome(dynamicArray, index, count)
          IN  /\ dynamicArray' = outcome.list
              /\ ret' = Call("RemoveRange", <<index, count>>, outcome.threw)
    /\ calls' = calls + 1
    /\ ArrayFrame

\* DynamicArray::Clear()
Clear ==
    /\ pc = "ready"
    /\ calls < MaxArrayCalls
    /\ LET outcome == ClearOutcome(dynamicArray)
       IN  /\ dynamicArray' = outcome.list
           /\ ret' = Call("Clear", <<>>, outcome.threw)
    /\ calls' = calls + 1
    /\ ArrayFrame

\* DynamicArray::operator[](index), read: value = list[index]
Subscript ==
    /\ pc = "ready"
    /\ calls < MaxArrayCalls
    /\ \E index \in IndexArgs :
          LET outcome == SubscriptOutcome(dynamicArray, index)
          IN  ret' = [Call("operator[]", <<index>>, outcome.threw) EXCEPT
                         !.args = <<index, outcome.value>>]
    /\ calls' = calls + 1
    /\ UNCHANGED dynamicArray
    /\ ArrayFrame

\* DynamicArray::operator[](index), written through: list[index] = element
SubscriptAssign ==
    /\ pc = "ready"
    /\ calls < MaxArrayCalls
    /\ \E index \in IndexArgs, element \in Elements :
          LET outcome == SubscriptOutcome(dynamicArray, index)
          IN  /\ dynamicArray' = IF outcome.threw = "none"
                                 THEN [dynamicArray EXCEPT !.array[index] = element]
                                 ELSE dynamicArray
              /\ ret' = Call("operator[]=", <<index, element>>, outcome.threw)
    /\ calls' = calls + 1
    /\ ArrayFrame

ArrayNext ==
    \/ NewDefault
    \/ NewOfCapacity
    \/ NewFromArray
    \/ Add
    \/ AddRange
    \/ Insert
    \/ InsertRange
    \/ RemoveAt
    \/ RemoveRange
    \/ Clear
    \/ Subscript
    \/ SubscriptAssign

\* A DynamicArray<int> as its callers can drive it.
ArraySpec == Init /\ [][ArrayNext]_vars

(***************************************************************************)
(* Properties of the DynamicArray.                                         *)
(***************************************************************************)

\* The smallest multiple of m that is at least n, for n >= 1.
SmallestMultiple(n, m) == ((n + m - 1) \div m) * m

\* C12: in every state of a constructed DynamicArray with increment m >= 1,
\* 0 <= count <= capacity and capacity is a positive multiple of m (and the
\* length of the backing Array).
CapacityInvariant ==
    pc = "ready" =>
        /\ dynamicArray.capacityModifier >= 1
        /\ dynamicArray.count >= 0
        /\ dynamicArray.count <= dynamicArray.capacity
        /\ dynamicArray.capacity > 0
        /\ dynamicArray.capacity % dynamicArray.capacityModifier = 0
        /\ Length(dynamicArray.array) = dynamicArray.capacity

\* C12 witness: a RemoveRange whose count argument wrapped raised the count
\* to the capacity.
RemoveRangeFilledCapacity ==
    /\ ret.op = "RemoveRange"
    /\ ret.threw = "none"
    /\ dynamicArray.count > ret.count
    /\ dynamicArray.count = dynamicArray.capacity

\* C13: an Add whose new count exceeds the capacity makes the capacity the
\* smallest multiple of the increment that is at least the new count; any
\* other Add leaves the capacity as it was.
GrowthToSmallestMultiple ==
    [][(ret'.op = "Add" /\ calls' = calls + 1) =>
          IF dynamicArray.count + 1 > dynamicArray.capacity
          THEN dynamicArray'.capacity =
                  SmallestMultiple(dynamicArray.count + 1, dynamicArray.capacityModifier)
          ELSE dynamicArray'.capacity = dynamicArray.capacity]_vars

\* C14: Insert(value, index) with 0 <= index <= count yields
\* s[0..index-1] ++ [value] ++ s[index..] and a count one larger; with
\* index > count it throws out_of_range.
InsertAtIndex ==
    [][(ret'.op = "Insert" /\ calls' = calls + 1) =>
          LET value == ret'.args[1]
              index == ret'.args[2]
              s == Stored(dynamicArray)
          IN  IF 0 <= index /\ index <= dynamicArray.count
              THEN /\ ret'.threw = "none"
                   /\ dynamicArray'.count = dynamicArray.count + 1
                   /\ Stored(dynamicArray') =
                         SubSeq(s, 1, index) \o <<value>> \o SubSeq(s, index + 1, Len(s))
              ELSE ret'.threw = "out_of_range"]_vars

\* C14 witness: an Insert before stored elements grew the capacity.
InsertedInFront ==
    /\ ret.op = "Insert"
    /\ ret.threw = "none"
    /\ ret.args[2] = 0
    /\ ret.count >= 2
    /\ dynamicArray.capacity > ret.capacity

\* C15: RemoveAt(index) with 0 <= index < count yields s without the element
\* at index, the later elements one slot to the left, and a count one
\* smaller; with index >= count it throws out_of_range.
RemoveAtIndex ==
    [][(ret'.op = "RemoveAt" /\ calls' = calls + 1) =>
          LET index == ret'.args[1]
              s == Stored(dynamicArray)
          IN  IF 0 <= index /\ index < dynamicArray.count
              THEN /\ ret'.threw = "none"
                   /\ dynamicArray'.count = dynamicArray.count - 1
                   /\ Stored(dynamicArray') =
                         SubSeq(s, 1, index) \o SubSeq(s, index + 2, Len(s))
              ELSE ret'.threw = "out_of_range"]_vars

\* C15 witness: a RemoveAt took an element that had others behind it.
RemovedBeforeOthers ==
    /\ ret.op = "RemoveAt"
    /\ ret.threw = "none"
    /\ ret.args[1] + 1 < ret.count

\* C16: operator[] succeeds exactly when index < count: read, it returns the
\* element stored at index; written through, it replaces that element alone;
\* every other index, inside the capacity or beyond, throws out_of_range.
SubscriptWithinCount ==
    [][(ret'.op \in {"operator[]", "operator[]="} /\ calls' = calls + 1) =>
          LET index == ret'.args[1]
              s == Stored(dynamicArray)
          IN  IF 0 <= index /\ index < dynamicArray.count
              THEN /\ ret'.threw = "none"
                   /\ ret'.op = "operator[]" =>
                         (ret'.args[2] = s[index + 1] /\ dynamicArray' = dynamicArray)
                   /\ ret'.op = "operator[]=" =>
                         /\ Stored(dynamicArray') = [s EXCEPT ![index + 1] = ret'.args[2]]
                         /\ dynamicArray'.count = dynamicArray.count
              ELSE /\ ret'.threw = "out_of_range"
                   /\ dynamicArray' = dynamicArray]_vars

\* C16 witness: a read of an unused slot inside the capacity was refused.
UnusedSlotRefused ==
    /\ ret.op = "operator[]"
    /\ ret.threw = "out_of_range"
    /\ ret.args[1] >= dynamicArray.count
    /\ ret.args[1] < dynamicArray.capacity

\* C18: an Add followed by RemoveAt(count - 1) restores the count and the
\* elements found by the Add.
AddThenRemoveLast ==
    [][(/\ ret.op = "Add"
        /\ ret'.op = "RemoveAt"
        /\ calls' = calls + 1
        /\ ret'.args[1] = dynamicArray.count - 1)
       => (/\ ret'.threw = "none"
           /\ dynamicArray'.count = ret.count
           /\ Stored(dynamicArray') = ret.before)]_vars

\* C18 witness: the Add that was undone had reallocated a non-empty array.
UndidReallocatingAdd ==
    /\ ret.op = "RemoveAt"
    /\ ret.threw = "none"
    /\ ret.args[1] = ret.count - 1
    /\ ret.count >= 2
    /\ ret.afterGrowingAdd

(***************************************************************************)
(* Array.c++ with T = int: the two Resize functions. A slot of new T[n]    *)
(* that nothing wrote holds an indeterminate value; the caller who reads   *)
(* it may find any int there, and `junk` gives the int found in each slot. *)
(***************************************************************************)

\* The Arrays resized, the lengths asked for, and what unwritten slots hold.
SourceArrays == UNION {[0..(n - 1) -> Elements] : n \in 0..MaxLength}
LengthArgs == 0..MaxCount
JunkOf(length) == [0..(length - 1) -> Elements]

\* Array::Resize(length), as the caller reads the result.
ResizeRead(array, length, junk) ==
    [i \in 0..(length - 1) |->
        LET slot == ResizeOf(array, length, Indeterminate)[i]
        IN  IF i \in DOMAIN array THEN slot ELSE junk[i]]

\* Array::Resize(length, defaultValue): inside it `length` names the
\* parameter, in the test and in both ends of the loop.
ResizeDefaultRead(array, length, defaultValue, junk) ==
    LET resizedArray == ResizeRead(array, length, junk)
    IN  IF length <= length
        THEN resizedArray
        ELSE [i \in DOMAIN resizedArray |->
                IF length <= i /\ i < length THEN defaultValue ELSE resizedArray[i]]

\* array.Resize(length)
ResizeArray ==
    /\ pc = "new"
    /\ pc' = "done"
    /\ \E array \in SourceArrays, length \in LengthArgs :
       \E junk \in JunkOf(length) :
          ret' = [op |-> "Resize(length)", array |-> array, args |-> <<length>>,
                  result |-> ResizeRead(array, length, junk)]
    /\ UNCHANGED <<tableVars, otherVars, calls>>

\* array.Resize(length, defaultValue)
ResizeArrayDefault ==
    /\ pc = "new"
    /\ pc' = "done"
    /\ \E array \in SourceArrays, length \in LengthArgs, defaultValue \in Elements :
       \E junk \in JunkOf(length) :
          ret' = [op |-> "Resize(length, defaultValue)", array |-> array,
                  args |-> <<length, defaultValue>>,
                  result |-> ResizeDefaultRead(array, length, defaultValue, junk)]
    /\ UNCHANGED <<tableVars, otherVars, calls>>

ResizeNext ==
    \/ ResizeArray
    \/ ResizeArrayDefault

\* One Resize call on an Array<int>.
ResizeSpec == Init /\ [][ResizeNext]_vars

\* C17: Resize(newLength, defaultValue) on an Array of length L returns an
\* Array of length newLength whose first min(L, newLength) elements are the
\* original's in order and whose slots L..newLength-1 all hold defaultValue.
ResizeFillsDefault ==
    ret.op = "Resize(length, defaultValue)" =>
        /\ Length(ret.result) = ret.args[1]
        /\ \A i \in DOMAIN ret.result :
              ret.result[i] = IF i \in DOMAIN ret.array THEN ret.array[i] ELSE ret.args[2]

(***************************************************************************)
(* A DynamicArray<int> of capacity 200 and increment 200 that is only      *)
(* appended to: the k-th Add appends the value k.                          *)
(***************************************************************************)

\* DynamicArray<int>(200, 200), the capacity and the increment given.
NewOfInitialCapacity ==
    /\ pc = "new"
    /\ pc' = "ready"
    /\ dynamicArray' = IntArrayOf(DynamicArray_INITIAL_CAPACITY, DynamicArray_INITIAL_CAPACITY)
    /\ ret' = [op |-> "DynamicArray(capacity)", capacity |-> DynamicArray_INITIAL_CAPACITY,
               threw |-> "none"]
    /\ UNCHANGED <<tableVars, linkedList, heap, reference, sparseArray, calls>>

\* DynamicArray::Add(count + 1), until one element more than INITIAL_CAPACITY is held.
AddNext ==
    /\ pc = "ready"
    /\ dynamicArray.count <= DynamicArray_INITIAL_CAPACITY
    /\ LET outcome == AddOutcome(dynamicArray, dynamicArray.count + 1)
       IN  /\ dynamicArray' = outcome.list
           /\ ret' = Call("Add", <<dynamicArray.count + 1>>, outcome.threw)
    /\ UNCHANGED calls
    /\ ArrayFrame

\* DynamicArray::operator[](index), read at 200 and at 400.
SubscriptAt ==
    /\ pc = "ready"
    /\ \E index \in {DynamicArray_INITIAL_CAPACITY, 2 * DynamicArray_INITIAL_CAPACITY} :
          LET outcome == SubscriptOutcome(dynamicArray, index)
          IN  ret' = [Call("operator[]", <<index>>, outcome.threw) EXCEPT
                         !.args = <<index, outcome.value>>]
    /\ UNCHANGED <<dynamicArray, calls>>
    /\ ArrayFrame

AppendNext ==
    \/ NewDefault
    \/ NewOfInitialCapacity
    \/ AddNext
    \/ SubscriptAt

\* The DynamicArray that is only appended to.
AppendSpec == Init /\ [][AppendNext]_vars

\* C19: a DynamicArray created with capacity 200 and increment 200 has
\* capacity 200 while it holds at most 200 elements; once it holds the 201st
\* its capacity is 400, [200] is the 201st value appended and [400] throws
\* out_of_range.
AppendScenario ==
    (pc = "ready" /\ dynamicArray.capacityModifier = DynamicArray_INITIAL_CAPACITY) =>
        /\ dynamicArray.count <= DynamicArray_INITIAL_CAPACITY =>
              dynamicArray.capacity = DynamicArray_INITIAL_CAPACITY
        /\ dynamicArray.count = DynamicArray_INITIAL_CAPACITY + 1 =>
              /\ dynamicArray.capacity = 2 * DynamicArray_INITIAL_CAPACITY
              /\ SubscriptOutcome(dynamicArray, DynamicArray_INITIAL_CAPACITY)
                    = Returned(DynamicArray_INITIAL_CAPACITY + 1)
              /\ SubscriptOutcome(dynamicArray, 2 * DynamicArray_INITIAL_CAPACITY)
                    = Threw("out_of_range")


(***************************************************************************)
(* LinkedList.c++ / Node.c++ with their pointers: heap is the sequence of  *)
(* the Nodes allocated so far, a Node* is the position of its Node in heap *)
(* (NullNode for nullptr), and linkedList holds the count, head, tail and  *)
(* constructedNodes of one LinkedList<int>.                                *)
(***************************************************************************)

MaxNodes == 3

\* Node<T>(data): the members of a Node with their default initializers.
NewNode(data) ==
    [Data |-> data, previous |-> NullNode, next |-> NullNode, isConstructed |-> FALSE]

\* LinkedList::Add(Node<T>* node, contiguously = true): the loop that links
\* node, and every Node after it, at the tail.
RECURSIVE AddNodeOutcome(_, _, _)
AddNodeOutcome(list, memory, node) ==
    IF node = NullNode
    THEN [list |-> list, heap |-> memory]
    ELSE IF list.count = 0
         THEN AddNodeOutcome([list EXCEPT !.count = 1, !.head = node, !.tail = node],
                             memory, memory[node].next)
         ELSE LET linked ==
                      [memory EXCEPT
                          ![node].previous = IF @ = NullNode THEN list.tail ELSE @,
                          ![list.tail].next = node]
              IN  AddNodeOutcome([list EXCEPT !.count = @ + 1, !.tail = node],
                                 linked, linked[node].next)

\* LinkedList::Add(T value): a Node constructed on the heap, marked as
\* constructed, added at the tail and recorded in constructedNodes.
AddValueOutcome(list, memory, value) ==
    LET constructedNode == Len(memory) + 1
        allocated == Append(memory, [NewNode(value) EXCEPT !.isConstructed = TRUE])
        added == AddNodeOutcome(list, allocated, constructedNode)
    IN  [list |-> [added.list EXCEPT
                      !.constructedNodes = Append(@, constructedNode)],
         heap |-> added.heap]

\* The while loop of LinkedList::Reverse: every next turned to the Node before.
RECURSIVE ReverseLinks(_, _, _)
ReverseLinks(memory, previousNode, currentNode) ==
    IF currentNode = NullNode
    THEN memory
    ELSE ReverseLinks([memory EXCEPT ![currentNode].next = previousNode],
                      currentNode, memory[currentNode].next)

\* LinkedList::Reverse()
ReverseOutcome(list, memory) ==
    IF list.count = 0
    THEN [list |-> list, heap |-> memory]
    ELSE LET secondNode == memory[list.head].next
             relinked == ReverseLinks(memory, NullNode, list.head)
             swapped == [list EXCEPT !.head = list.tail, !.tail = list.head]
             headCut == [relinked EXCEPT ![swapped.head].previous = NullNode]
         IN  [list |-> swapped,
              heap |-> [headCut EXCEPT ![swapped.tail].previous = secondNode]]

\* Node::Swap(node1, node2)
NodeSwap(memory, node1, node2) ==
    LET previousNode1 == memory[node1].previous
        nextNode1 == memory[node1].next
        previousNode2 == memory[node2].previous
        nextNode2 == memory[node2].next
        m1 == IF previousNode1 # NullNode
              THEN [memory EXCEPT ![previousNode1].next = node2] ELSE memory
        m2 == IF previousNode2 # NullNode
              THEN [m1 EXCEPT ![previousNode2].next = node1] ELSE m1
        temporaryPrevious == m2[node1].previous
        m3 == [m2 EXCEPT ![node1].previous =
                  IF m2[node2].previous # node1 THEN m2[node2].previous ELSE node2]
        m4 == [m3 EXCEPT ![node2].previous =
                  IF temporaryPrevious # node2 THEN temporaryPrevious ELSE node1]
        temporaryNext == m4[node1].next
        m5 == [m4 EXCEPT ![node1].next = m4[node2].next]
        m6 == [m5 EXCEPT ![node2].next = temporaryNext]
        m7 == IF nextNode1 # NullNode /\ nextNode1 # node2
              THEN [m6 EXCEPT ![nextNode1].previous = node2] ELSE m6
    IN  IF nextNode2 # NullNode /\ nextNode2 # node1
        THEN [m7 EXCEPT ![nextNode2].previous = node1] ELSE m7

\* A mutant of SwapNodesOutcome: the links swapped, head and tail left alone.
SwapNodesOutcomeKeepEnds(list, memory, node1, node2) ==
    IF node1 = NullNode \/ node2 = NullNode
    THEN [list |-> list, heap |-> memory]
    ELSE [list |-> list, heap |-> NodeSwap(memory, node1, node2)]

\* LinkedList::SwapNodes(node1, node2) of a Linked List with ImprovableSearch
\* (EveryNode calls it on no other).
SwapNodesOutcome(list, memory, node1, node2) ==
    IF node1 = NullNode \/ node2 = NullNode
    THEN [list |-> list, heap |-> memory]
    ELSE [list |-> [list EXCEPT
                       !.head = IF node1 = @ THEN node2
                                ELSE IF node2 = @ THEN node1 ELSE @,
                       !.tail = IF node1 = @ THEN node2
                                ELSE IF node2 = @ THEN node1 ELSE @],
          heap |-> NodeSwap(memory, node1, node2)]

\* The loop of LinkedList::EveryNode for the predicate node->Data == value:
\* nodes holds the Nodes taken so far, length is the Length of the Array
\* they are written to.
RECURSIVE EveryNodeLoop(_, _, _, _, _, _, _, _)
EveryNodeLoop(list, memory, value, headToTail, amountTaken, length, nodes, currentNode) ==
    IF ~(Len(nodes) < length /\ currentNode # NullNode)
    THEN [list |-> list, heap |-> memory, nodes |-> nodes]
    ELSE IF memory[currentNode].Data # value
         THEN EveryNodeLoop(list, memory, value, headToTail, amountTaken, length, nodes,
                            IF headToTail THEN memory[currentNode].next
                                          ELSE memory[currentNode].previous)
         ELSE LET swapped ==
                      IF amountTaken # 0 /\ list.ImprovableSearch
                      THEN SwapNodesOutcome(list, memory, currentNode,
                               IF headToTail THEN memory[currentNode].previous
                                             ELSE memory[currentNode].next)
                      ELSE [list |-> list, heap |-> memory]
              IN  EveryNodeLoop(swapped.list, swapped.heap, value, headToTail,
                                amountTaken, length, Append(nodes, currentNode),
                                IF headToTail THEN swapped.heap[currentNode].next
                                              ELSE swapped.heap[currentNode].previous)

\* LinkedList::EveryNode(predicate, headToTail, amountTaken)
EveryNode(list, memory, value, headToTail, amountTaken) ==
    EveryNodeLoop(list, memory, value, headToTail, amountTaken,
                  IF amountTaken = 0 THEN list.count ELSE amountTaken, <<>>,
                  IF headToTail THEN list.head ELSE list.tail)

\* A mutant of FirstNodeOutcome: the chain searched from its tail.
FirstNodeOutcomeFromTail(list, memory, value) ==
    LET found == EveryNode(list, memory, value, FALSE, 1)
    IN  [list |-> found.list, heap |-> found.heap,
         node |-> IF Len(found.nodes) # 0 THEN found.nodes[1] ELSE NullNode]

\* LinkedList::FindFirstNode(value), which is FirstNode(node->Data == value).
FirstNodeOutcome(list, memory, value) ==
    LET found == EveryNode(list, memory, value, TRUE, 1)
    IN  [list |-> found.list, heap |-> found.heap,
         node |-> IF Len(found.nodes) # 0 THEN found.nodes[1] ELSE NullNode]

\* LinkedList::ValidateBoundaries: TRUE when the index passes, FALSE when it
\* throws out_of_range.
ListValidateBoundaries(list, index) == SizeLess(index, list.count)

\* The loop of LinkedList::NodeAt(index, headToTail = true) on a validated
\* index: index steps from the head.
RECURSIVE NodeAtIndex(_, _, _)
NodeAtIndex(memory, node, index) ==
    IF index = 0 THEN node ELSE NodeAtIndex(memory, memory[node].next, index - 1)

\* Node::Last(): the last Node after this one, nullptr when there is none.
NodeLast(memory, node) ==
    LET RECURSIVE Furthest(_)
        Furthest(n) == IF n # NullNode /\ memory[n].next # NullNode
                       THEN Furthest(memory[n].next) ELSE n
    IN  Furthest(memory[node].next)

\* The while loop of LinkedList::Insert that counts the Nodes from counterNode.
RECURSIVE CountFrom(_, _)
CountFrom(memory, counterNode) ==
    IF counterNode = NullNode THEN 0 ELSE 1 + CountFrom(memory, memory[counterNode].next)

\* LinkedList::Insert(Node<T>* node, index, contiguously = true)
InsertNodeOutcome(list, memory, node, index) ==
    IF index = list.count \/ (index = 0 /\ list.count = 0)
    THEN AddNodeOutcome(list, memory, node) @@ [threw |-> "none"]
    ELSE IF ~ListValidateBoundaries(list, index)
    THEN [list |-> list, heap |-> memory, threw |-> "out_of_range"]
    ELSE LET atIndexNode == NodeAtIndex(memory, list.head, index)
             preIndexNode == memory[atIndexNode].previous
             lastNode == NodeLast(memory, node)
             m1 == IF preIndexNode # NullNode
                   THEN [memory EXCEPT ![preIndexNode].next = node] ELSE memory
             m2 == [m1 EXCEPT ![atIndexNode].previous =
                                  IF lastNode # NullNode THEN lastNode ELSE node]
             m3 == [m2 EXCEPT ![node].previous = preIndexNode]
             m4 == IF lastNode # NullNode
                   THEN [m3 EXCEPT ![lastNode].next = atIndexNode]
                   ELSE [m3 EXCEPT ![node].next = atIndexNode]
         IN  [list |-> [list EXCEPT
                           !.head = IF preIndexNode # NullNode THEN @ ELSE node,
                           !.count = @ + CountFrom(m3, node)],
              heap |-> m4, threw |-> "none"]

\* LinkedList::Insert(T value, index)
InsertValueOutcome(list, memory, value, index) ==
    IF index = list.count \/ (index = 0 /\ list.count = 0)
    THEN AddValueOutcome(list, memory, value) @@ [threw |-> "none"]
    ELSE IF ~ListValidateBoundaries(list, index)
    THEN [list |-> list, heap |-> memory, threw |-> "out_of_range"]
    ELSE LET constructedNode == Len(memory) + 1
         IN  InsertNodeOutcome(
                 [list EXCEPT !.constructedNodes = Append(@, constructedNode)],
                 Append(memory, NewNode(value)), constructedNode, index)

\* LinkedList::AddRange(array): Add(T(value)) for every value of the array.
RECURSIVE ListAddRangeOutcome(_, _, _, _)
ListAddRangeOutcome(list, memory, array, i) ==
    IF i >= Length(array)
    THEN [list |-> list, heap |-> memory]
    ELSE LET added == AddValueOutcome(list, memory, array[i])
         IN  ListAddRangeOutcome(added.list, added.heap, array, i + 1)

\* The Nodes LinkedList::InsertRange constructs from array[i] on, each by
\* Node(data, previous), which links it behind the one before.
RECURSIVE ConstructFrom(_, _, _, _)
ConstructFrom(list, memory, array, i) ==
    IF i >= Length(array)
    THEN [list |-> list, heap |-> memory]
    ELSE LET constructedNode == Len(memory) + 1
             lastConstructedNode == Len(memory)
             allocated == Append([memory EXCEPT ![lastConstructedNode].next = constructedNode],
                                 [NewNode(array[i]) EXCEPT !.previous = lastConstructedNode])
         IN  ConstructFrom([list EXCEPT !.constructedNodes = Append(@, constructedNode)],
                           allocated, array, i + 1)

\* LinkedList::InsertRange(array, index)
ListInsertRangeOutcome(list, memory, array, index) ==
    IF index = list.count \/ (index = 0 /\ list.count = 0)
    THEN ListAddRangeOutcome(list, memory, array, 0) @@ [threw |-> "none"]
    ELSE IF ~ListValidateBoundaries(list, index)
    THEN [list |-> list, heap |-> memory, threw |-> "out_of_range"]
    ELSE IF Length(array) = 0
    THEN [list |-> list, heap |-> memory, threw |-> "none"]
    ELSE LET firstConstructedNode == Len(memory) + 1
             constructed ==
                 ConstructFrom(
                     [list EXCEPT !.constructedNodes = Append(@, firstConstructedNode)],
                     Append(memory, NewNode(array[0])), array, 1)
         IN  InsertNodeOutcome(constructed.list, constructed.heap,
                               firstConstructedNode, index)

\* LinkedList::NodeAt(index): the Node there, or out_of_range.
NodeAtOutcome(list, memory, index) ==
    IF ~ListValidateBoundaries(list, index)
    THEN [node |-> NullNode, threw |-> "out_of_range"]
    ELSE [node |-> NodeAtIndex(memory, list.head, index), threw |-> "none"]

\* A mutant of RemoveNodeOutcome: the neighbours linked past the Node, head
\* and tail left where they were.
RemoveNodeOutcomeKeepEnds(list, memory, node) ==
    IF node = NullNode
    THEN [list |-> list, heap |-> memory]
    ELSE LET m1 == IF node # list.head
                   THEN [memory EXCEPT ![memory[node].previous].next = memory[node].next]
                   ELSE memory
             m2 == IF node # list.tail
                   THEN [m1 EXCEPT ![m1[node].next].previous = m1[node].previous]
                   ELSE m1
         IN  [list |-> [list EXCEPT !.count = @ - 1],
              heap |-> [m2 EXCEPT ![node].next = NullNode, ![node].previous = NullNode]]

\* LinkedList::Remove(Node<T>* node)
RemoveNodeOutcome(list, memory, node) ==
    IF node = NullNode
    THEN [list |-> list, heap |-> memory]
    ELSE LET m1 == IF node # list.head
                   THEN [memory EXCEPT ![memory[node].previous].next = memory[node].next]
                   ELSE memory
             l1 == IF node # list.head THEN list
                   ELSE [list EXCEPT !.head = memory[node].next]
             m2 == IF node # l1.tail
                   THEN [m1 EXCEPT ![m1[node].next].previous = m1[node].previous]
                   ELSE m1
             l2 == IF node # l1.tail THEN l1
                   ELSE [l1 EXCEPT !.tail = m1[node].previous]
         IN  [list |-> [l2 EXCEPT !.count = @ - 1],
              heap |-> [m2 EXCEPT ![node].next = NullNode, ![node].previous = NullNode]]

\* LinkedList::RemoveAt(index)
ListRemoveAtOutcome(list, memory, index) ==
    IF ~ListValidateBoundaries(list, index)
    THEN [list |-> list, heap |-> memory, threw |-> "out_of_range"]
    ELSE RemoveNodeOutcome(list, memory, NodeAtIndex(memory, list.head, index))
            @@ [threw |-> "none"]

\* The for loop of LinkedList::RemoveRange: count - currentIndex Nodes are
\* still to be removed, currentNode first.
RECURSIVE RemoveFrom(_, _, _, _, _)
RemoveFrom(list, memory, currentNode, otherNode, remaining) ==
    IF remaining = 0
    THEN [list |-> list, heap |-> memory]
    ELSE LET removed == RemoveNodeOutcome(list, memory, currentNode)
         IN  RemoveFrom(removed.list, removed.heap, otherNode,
                        IF otherNode # NullNode THEN removed.heap[otherNode].next
                                                ELSE NullNode,
                        remaining - 1)

\* LinkedList::RemoveRange(index, count)
ListRemoveRangeOutcome(list, memory, index, count) ==
    IF list.count = 0 /\ index = 0 /\ count = 0
    THEN [list |-> list, heap |-> memory, threw |-> "none"]
    ELSE IF ~ListValidateBoundaries(list, index)
            \/ ~ListValidateBoundaries(list, index + count - 1)
    THEN [list |-> list, heap |-> memory, threw |-> "out_of_range"]
    ELSE LET currentNode == NodeAtIndex(memory, list.head, index)
         IN  RemoveFrom(list, memory, currentNode, memory[currentNode].next, count)
                @@ [threw |-> "none"]

\* LinkedList::Clear()
ListClearOutcome(list, memory) == ListRemoveRangeOutcome(list, memory, 0, list.count)

\* The Nodes met from node by following one of the two links, at most fuel
\* of them.
RECURSIVE Walk(_, _, _, _)
Walk(memory, node, link, fuel) ==
    IF node = NullNode \/ fuel = 0
    THEN <<>>
    ELSE <<node>> \o Walk(memory,
                          IF link = "next" THEN memory[node].next
                                           ELSE memory[node].previous,
                          link, fuel - 1)

\* for (node = head; node; node = node->next): one Node more than the heap
\* holds is met only when the links go round.
Forward(list, memory) == Walk(memory, list.head, "next", Len(memory) + 1)

\* for (node = tail; node; node = node->previous)
Backward(list, memory) == Walk(memory, list.tail, "previous", Len(memory) + 1)

\* The elements a LinkedList holds, from head to tail.
ListData(list, memory) ==
    [p \in 1..Len(Forward(list, memory)) |-> memory[Forward(list, memory)[p]].Data]

Reversed(sequence) ==
    [i \in 1..Len(sequence) |-> sequence[Len(sequence) + 1 - i]]

ListFrame == UNCHANGED <<tableVars, dynamicArray, reference, sparseArray, calls>>

\* LinkedList<int>(improvableSearch)
NewLinkedList ==
    /\ pc = "new"
    /\ pc' = "ready"
    /\ \E improvableSearch \in BOOLEAN :
          linkedList' = [NoChain EXCEPT !.ImprovableSearch = improvableSearch]
    /\ heap' = NoHeap
    /\ ret' = [op |-> "LinkedList()", threw |-> "none"]
    /\ ListFrame

\* LinkedList::Add(value)
AddToList ==
    /\ pc = "ready"
    /\ Len(heap) < MaxNodes
    /\ \E value \in Elements :
          LET outcome == AddValueOutcome(linkedList, heap, value)
          IN  /\ linkedList' = outcome.list
              /\ heap' = outcome.heap
              /\ ret' = [op |-> "Add", args |-> <<value>>, threw |-> "none"]
    /\ UNCHANGED pc
    /\ ListFrame

\* LinkedList::Reverse(); the call records the Nodes it found from the head.
ReverseList ==
    /\ pc = "ready"
    /\ LET outcome == ReverseOutcome(linkedList, heap)
       IN  /\ linkedList' = outcome.list
           /\ heap' = outcome.heap
    /\ ret' = [op |-> "Reverse", threw |-> "none",
               before |-> Forward(linkedList, heap)]
    /\ UNCHANGED pc
    /\ ListFrame

ListNext ==
    \/ NewLinkedList
    \/ AddToList
    \/ ReverseList

\* One LinkedList<int> that is added to and reversed.
ListSpec == Init /\ [][ListNext]_vars

\* C20: after Reverse() on a chain of n >= 0 Nodes, the traversal from head
\* by next meets exactly the n Nodes that were there, in reversed order, and
\* ends at tail; the traversal from tail by previous is exactly the reverse
\* of that forward traversal, and the previous of head is null.
ReverseBothLinks ==
    (pc = "ready" /\ ret.op = "Reverse") =>
        LET forward == Forward(linkedList, heap)
            n == Len(ret.before)
        IN  /\ forward = Reversed(ret.before)
            /\ IF n = 0
               THEN linkedList.head = NullNode /\ linkedList.tail = NullNode
               ELSE /\ forward[n] = linkedList.tail
                    /\ heap[linkedList.head].previous = NullNode
            /\ Backward(linkedList, heap) = Reversed(forward)


(***************************************************************************)
(* One LinkedList<int> under the operations that add, insert, remove and   *)
(* search. Reverse, which leaves the previous links of the inner Nodes     *)
(* stale, is studied on its own in ListSpec.                               *)
(***************************************************************************)

ListIndexArgs == (0..MaxNodes) \cup {-w : w \in 1..MaxWrap}
ListCountArgs == 0..MaxNodes

\* What a call on the list records: its name and what it threw.
ListCall(op, threw) == [op |-> op, threw |-> threw]

\* LinkedList::Insert(value, index)
ListInsert ==
    /\ pc = "ready"
    /\ Len(heap) < MaxNodes
    /\ \E value \in Elements, index \in ListIndexArgs :
          LET outcome == InsertValueOutcome(linkedList, heap, value, index)
          IN  /\ linkedList' = outcome.list
              /\ heap' = outcome.heap
              /\ ret' = ListCall("Insert", outcome.threw)
    /\ UNCHANGED pc
    /\ ListFrame

\* LinkedList::InsertRange(array, index)
ListInsertRange ==
    /\ pc = "ready"
    /\ \E array \in ArrayArgs, index \in ListIndexArgs :
          /\ Len(heap) + Length(array) <= MaxNodes
          /\ LET outcome == ListInsertRangeOutcome(linkedList, heap, array, index)
             IN  /\ linkedList' = outcome.list
                 /\ heap' = outcome.heap
                 /\ ret' = ListCall("InsertRange", outcome.threw)
    /\ UNCHANGED pc
    /\ ListFrame

\* LinkedList::NodeAt(index)
ListNodeAt ==
    /\ pc = "ready"
    /\ \E index \in ListIndexArgs :
          LET outcome == NodeAtOutcome(linkedList, heap, index)
          IN  ret' = ListCall("NodeAt", outcome.threw) @@ [node |-> outcome.node]
    /\ UNCHANGED <<pc, linkedList, heap>>
    /\ ListFrame

\* LinkedList::Remove(node) for a Node of this list
ListRemove ==
    /\ pc = "ready"
    /\ \E p \in 1..Len(Forward(linkedList, heap)) :
          LET node == Forward(linkedList, heap)[p]
              outcome == RemoveNodeOutcome(linkedList, heap, node)
          IN  /\ linkedList' = outcome.list
              /\ heap' = outcome.heap
              /\ ret' = ListCall("Remove", "none")
    /\ UNCHANGED pc
    /\ ListFrame

\* LinkedList::RemoveAt(index)
ListRemoveAt ==
    /\ pc = "ready"
    /\ \E index \in ListIndexArgs :
          LET outcome == ListRemoveAtOutcome(linkedList, heap, index)
          IN  /\ linkedList' = outcome.list
              /\ heap' = outcome.heap
              /\ ret' = ListCall("RemoveAt", outcome.threw)
    /\ UNCHANGED pc
    /\ ListFrame

\* LinkedList::RemoveRange(index, count)
ListRemoveRange ==
    /\ pc = "ready"
    /\ \E index \in ListIndexArgs, count \in ListCountArgs :
          LET outcome == ListRemoveRangeOutcome(linkedList, heap, index, count)
          IN  /\ linkedList' = outcome.list
              /\ heap' = outcome.heap
              /\ ret' = ListCall("RemoveRange", outcome.threw)
    /\ UNCHANGED pc
    /\ ListFrame

\* LinkedList::Clear()
ListClear ==
    /\ pc = "ready"
    /\ LET outcome == ListClearOutcome(linkedList, heap)
       IN  /\ linkedList' = outcome.list
           /\ heap' = outcome.heap
           /\ ret' = ListCall("Clear", outcome.threw)
    /\ UNCHANGED pc
    /\ ListFrame

\* LinkedList::FindFirstNode(value); the call records the list and the Nodes
\* it found from the head.
FindFirst ==
    /\ pc = "ready"
    /\ \E value \in Elements :
          LET outcome == FirstNodeOutcome(linkedList, heap, value)
          IN  /\ linkedList' = outcome.list
              /\ heap' = outcome.heap
              /\ ret' = [op |-> "FindFirstNode", args |-> <<value>>, threw |-> "none",
                         node |-> outcome.node, list |-> linkedList,
                         before |-> Forward(linkedList, heap),
                         data |-> ListData(linkedList, heap)]
    /\ UNCHANGED pc
    /\ ListFrame

ChainNext ==
    \/ NewLinkedList
    \/ AddToList
    \/ ListInsert
    \/ ListInsertRange
    \/ ListNodeAt
    \/ ListRemove
    \/ ListRemoveAt
    \/ ListRemoveRange
    \/ ListClear
    \/ FindFirst

ChainSpec == Init /\ [][ChainNext]_vars


\* C21: FindFirstNode(value) returns the first Node from the head whose Data
\* is value, or nullptr when no Node matches (also on an empty list); on a
\* list whose ImprovableSearch is off the order of the Nodes, head, tail and
\* count are as they were before the call.
FirstMatchReturned ==
    (pc = "ready" /\ ret.op = "FindFirstNode") =>
        LET matches == {p \in 1..Len(ret.before) :
                           heap[ret.before[p]].Data = ret.args[1]}
        IN  /\ ret.node = IF matches = {} THEN NullNode
                          ELSE ret.before[CHOOSE p \in matches :
                                              \A q \in matches : p <= q]
            /\ ~ret.list.ImprovableSearch =>
                  /\ Forward(linkedList, heap) = ret.before
                  /\ linkedList.head = ret.list.head
                  /\ linkedList.tail = ret.list.tail
                  /\ linkedList.count = ret.list.count

\* A search of a list with ImprovableSearch off that passed a Node, returned
\* the next and left a later match behind it.
FoundSecondOfThree ==
    /\ pc = "ready"
    /\ ret.op = "FindFirstNode"
    /\ ~ret.list.ImprovableSearch
    /\ Len(ret.before) = 3
    /\ ret.node = ret.before[2]
    /\ heap[ret.before[3]].Data = ret.args[1]


\* C22: a call that is rejected with out_of_range (Insert, InsertRange,
\* RemoveAt, RemoveRange and operator[] of a DynamicArray; Insert, NodeAt,
\* RemoveAt and RemoveRange of a LinkedList; Get of a HashTable) leaves the
\* count, the capacity and the elements of the structure as they were before
\* the call.
RejectedLeavesUnchanged ==
    [][(pc = "ready" /\ pc' = "ready" /\ ret'.threw = "out_of_range") =>
          /\ dynamicArray'.count = dynamicArray.count
          /\ dynamicArray'.capacity = dynamicArray.capacity
          /\ Stored(dynamicArray') = Stored(dynamicArray)
          /\ linkedList'.count = linkedList.count
          /\ ListData(linkedList', heap') = ListData(linkedList, heap)
          /\ hashedPairCount' = hashedPairCount
          /\ keys' = keys
          /\ values' = values]_vars


(***************************************************************************)
(* MurmurHashingAlgorithm called on its own, on small raw values and on    *)
(* seeds of either sign.                                                   *)
(***************************************************************************)

MaxRawHashing == 24
MaxHashingSeed == 2

RawHashingArgs == 0..MaxRawHashing
\* Small seeds of either sign, and seeds large enough for the products to
\* pass LONG_MAX.
HashingSeedArgs ==
    {seed + large * 3 * (2 ^ 29) :
        seed \in (-MaxHashingSeed)..MaxHashingSeed, large \in {0, 1}}

\* MurmurHashingAlgorithm(rawHashing, seed)
Hash ==
    /\ pc = "new"
    /\ pc' = "hashed"
    /\ \E rawHashing \in RawHashingArgs, seed \in HashingSeedArgs :
          ret' = [op |-> "MurmurHashingAlgorithm", rawHashing |-> rawHashing,
                  seed |-> seed, hash |-> MurmurHashingAlgorithm(rawHashing, seed),
                  initial |-> InitialHashValue(rawHashing, seed),
                  bytes |-> ToByteArray(rawHashing)]
    /\ UNCHANGED <<tableVars, otherVars, calls>>

HashNext == Hash

HashSpec == Init /\ [][HashNext]_vars

\* The accumulator of a call as the loop leaves it.
Accumulated(rawHashing, seed) ==
    MixFrom(ToByteArray(rawHashing), 1, InitialHashValue(rawHashing, seed))

\* C23: for every rawHashing >= 0 and every seed, negative seeds included,
\* MurmurHashingAlgorithm returns a long in 0..LONG_MAX, although each byte
\* is mixed in the 16-bit type short (and may come out negative).
HashNonNegative ==
    pc = "hashed" =>
        /\ \A i \in LongBytes : ret.hash[i] \in 0..255
        /\ ~LongIsNegative(ret.hash)

\* A call with a negative seed whose accumulator left the loop negative,
\* the last byte mixed being a negative short.
HashedNegativeAccumulator ==
    /\ pc = "hashed"
    /\ ret.seed < 0
    /\ LongIsNegative(Accumulated(ret.rawHashing, ret.seed))
    /\ \E i \in DOMAIN ToByteArray(ret.rawHashing) :
          MixByte(ToByteArray(ret.rawHashing)[i]) < 0

\* C24: for rawHashing = 0 the accumulator starts from seed ^ 1 (the length
\* of "0"), no byte is mixed in, and the result is the closing statements
\* of that, not those of the bare seed; the hash of 0 with seed 0 is not 0.
ZeroHashedWithLength ==
    (pc = "hashed" /\ ret.rawHashing = 0) =>
        /\ ToByteArray(0) = <<>>
        /\ ret.hash = Avalanche(LongXor(LongOfInt(ret.seed), LongOfInt(1)))
        /\ ret.hash # Avalanche(LongOfInt(ret.seed))
        /\ ret.seed = 0 => ret.hash # LongOfInt(0)

\* The hash of 0 with seed 0: 1 through the closing statements is 2003.
ZeroHashedToPrime ==
    /\ pc = "hashed"
    /\ ret.rawHashing = 0
    /\ ret.seed = 0
    /\ ret.hash = LongOfInt(PRIME)


(***************************************************************************)
(* Array::Last and DynamicArray::LastIndexOf, one call on an Array<int> or *)
(* a DynamicArray<int>. The loop of Array::Last reads data[i] without a    *)
(* bounds check; what lies in memory before data[0] is `outside`, its      *)
(* k-th value read as data[-k], and a read further out than that faults.   *)
(***************************************************************************)

MaxOutside == 2

Outsides == [1..MaxOutside -> Elements \cup {Indeterminate}]

\* The for loop of Array::Last from index i down, for the predicate
\* element_ == element. Its test i >= 0 compares a size_t and is always
\* true, and i-- on 0 wraps to SIZE_MAX, the index -1 of the window.
RECURSIVE LastFrom(_, _, _, _)
LastFrom(array, element, i, outside) ==
    IF i \in DOMAIN array
    THEN IF array[i] = element
         THEN [value |-> i, threw |-> "none", strayed |-> FALSE]
         ELSE LastFrom(array, element, i - 1, outside)
    ELSE IF -i \notin DOMAIN outside
         THEN [value |-> NoValue, threw |-> "fault", strayed |-> TRUE]
         ELSE IF outside[-i] = element
              THEN [value |-> i, threw |-> "none", strayed |-> TRUE]
              ELSE LastFrom(array, element, i - 1, outside)

\* Array::LastIndexOf(element, end), which is Last(element_ == element, end).
LastIndexOfOutcome(array, element, end, outside) ==
    LET least == IF Length(array) < end THEN Length(array) ELSE end
    IN  LastFrom(array, element, least - 1, outside)

\* array.LastIndexOf(element)
ArrayLastIndexOf ==
    /\ pc = "new"
    /\ pc' = "done"
    /\ \E array \in SourceArrays, element \in Elements, outside \in Outsides :
          ret' = [op |-> "Array::LastIndexOf", searched |-> array,
                  args |-> <<element>>, outside |-> outside]
                 @@ LastIndexOfOutcome(array, element, Length(array), outside)
    /\ UNCHANGED <<tableVars, otherVars, calls>>

\* DynamicArray<int>(array, capacityModifier).LastIndexOf(element)
ListLastIndexOf ==
    /\ pc = "new"
    /\ pc' = "done"
    /\ \E array \in SourceArrays, capacityModifier \in IncrementArgs,
          element \in Elements, outside \in Outsides :
          LET list == IntArrayFrom(array, capacityModifier)
          IN  ret' = [op |-> "DynamicArray::LastIndexOf",
                      searched |-> [i \in 0..(list.count - 1) |-> list.array[i]],
                      args |-> <<element>>, outside |-> outside]
                     @@ LastIndexOfOutcome(list.array, element, list.count, outside)
    /\ UNCHANGED <<tableVars, otherVars, calls>>

LastNext ==
    \/ ArrayLastIndexOf
    \/ ListLastIndexOf

LastSpec == Init /\ [][LastNext]_vars

\* C26: LastIndexOf(element) on an Array or a DynamicArray returns the
\* greatest index below the end of the search whose element matches, or -1
\* when none matches or nothing is searched, and reads no index outside the
\* array on the way.
LastIndexWithinArray ==
    (pc = "done" /\ ret.op \in {"Array::LastIndexOf", "DynamicArray::LastIndexOf"}) =>
        LET matches == {i \in DOMAIN ret.searched : ret.searched[i] = ret.args[1]}
        IN  /\ ret.threw = "none"
            /\ ~ret.strayed
            /\ ret.value = IF matches = {} THEN -1
                           ELSE CHOOSE i \in matches : \A j \in matches : j <= i


(***************************************************************************)
(* DynamicArray::RemoveAll on a DynamicArray<int> that has been added to.  *)
(***************************************************************************)

\* Array::Every(element_ == element, end), as IndicesOf calls it: the
\* matching indices below min(length, end), ascending.
RECURSIVE Every(_, _, _, _)
Every(array, element, end, i) ==
    IF ~(i < Length(array) /\ i < end)
    THEN <<>>
    ELSE (IF array[i] = element THEN <<i>> ELSE <<>>)
            \o Every(array, element, end, i + 1)

\* The for loop of DynamicArray::RemoveAll: RemoveAt for each index found
\* before the loop, from the k-th on; an out_of_range ends the call.
RECURSIVE RemoveEach(_, _, _)
RemoveEach(list, indices, k) ==
    IF k > Len(indices)
    THEN Done(list)
    ELSE LET outcome == RemoveAtOutcome(list, indices[k])
         IN  IF outcome.threw # "none" THEN outcome
             ELSE RemoveEach(outcome.list, indices, k + 1)

\* DynamicArray::RemoveAll(element)
RemoveAllOutcome(list, element) ==
    LET indices == Every(list.array, element, list.count, 0)
    IN  IF Len(indices) = 0
        THEN Done(list) @@ [value |-> FALSE]
        ELSE RemoveEach(list, indices, 1) @@ [value |-> TRUE]

\* DynamicArray::RemoveAll(element); the call records the elements it found.
RemoveAll ==
    /\ pc = "ready"
    /\ \E element \in Elements :
          LET outcome == RemoveAllOutcome(dynamicArray, element)
          IN  /\ dynamicArray' = outcome.list
              /\ ret' = Call("RemoveAll", <<element>>, outcome.threw)
                            @@ [before |-> Stored(dynamicArray),
                                value |-> IF outcome.threw = "none"
                                          THEN outcome.value ELSE NoValue]
    /\ UNCHANGED calls
    /\ ArrayFrame

RemoveAllNext ==
    \/ NewOfCapacity
    \/ Add
    \/ RemoveAll

RemoveAllSpec == Init /\ [][RemoveAllNext]_vars

\* C25: RemoveAll(element) removes every occurrence of the element: no
\* stored element equals it afterwards, the other elements keep their
\* order, the count drops by the number of occurrences, and the result is
\* true exactly when there was an occurrence.
RemoveAllRemovesAll ==
    (pc = "ready" /\ ret.op = "RemoveAll") =>
        LET others == SelectSeq(ret.before, LAMBDA e : e # ret.args[1])
        IN  /\ ret.threw = "none"
            /\ Stored(dynamicArray) = others
            /\ dynamicArray.count = Len(others)
            /\ ret.value = (Len(others) < Len(ret.before))


(***************************************************************************)
(* Queue.c++: a Queue<int> is a DynamicArray<int>; dynamicArray holds it.  *)
(***************************************************************************)

\* Queue::Front(): *(end() - 1), the slot before array.begin() + count.
Front(queue) == queue.array[queue.count - 1]

\* Queue::Back(): *(begin()), the first slot.
Back(queue) == queue.array[0]

\* Queue::Pop(): Back() kept, RemoveAt(0), the kept element returned.
PopOutcome(queue) ==
    LET lastElement == Back(queue)
        outcome == RemoveAtOutcome(queue, 0)
    IN  outcome @@ [value |-> IF outcome.threw = "none" THEN lastElement ELSE NoValue]

\* Queue::Push(element)
Push ==
    /\ pc = "ready"
    /\ calls < MaxArrayCalls
    /\ dynamicArray.count + 1 <= MaxCount
    /\ \E element \in Elements :
          LET outcome == AddOutcome(dynamicArray, element)
          IN  /\ dynamicArray' = outcome.list
              /\ ret' = Call("Push", <<element>>, outcome.threw)
    /\ calls' = calls + 1
    /\ ArrayFrame

\* Queue::Pop(); the call records the elements it found and what Front()
\* reported right before it.
Pop ==
    /\ pc = "ready"
    /\ LET outcome == PopOutcome(dynamicArray)
       IN  /\ dynamicArray' = outcome.list
           /\ ret' = Call("Pop", <<>>, outcome.threw)
                         @@ [before |-> Stored(dynamicArray),
                             front |-> IF dynamicArray.count > 0
                                       THEN Front(dynamicArray) ELSE NoValue,
                             value |-> outcome.value]
    /\ UNCHANGED calls
    /\ ArrayFrame

\* Queue<int>(capacity, capacityModifier) is DynamicArray<int>(capacity,
\* capacityModifier).
QueueNext ==
    \/ NewOfCapacity
    \/ Push
    \/ Pop

QueueSpec == Init /\ [][QueueNext]_vars

\* C27: Pop() on a Queue that holds an element returns the value Front()
\* reported right before the call, and the element it removes is that one,
\* the element at the front.
PopTakesFront ==
    (pc = "ready" /\ ret.op = "Pop" /\ Len(ret.before) > 0) =>
        /\ ret.threw = "none"
        /\ ret.value = ret.front
        /\ Stored(dynamicArray) = SubSeq(ret.before, 1, Len(ret.before) - 1)


\* C30: after any sequence of Add, Insert, InsertRange, Remove (of a Node of
\* the list), RemoveAt, RemoveRange and Clear, the traversal from head by
\* next meets exactly count Nodes and ends at tail, the traversal from tail
\* by previous meets the same Nodes in reverse, and head and tail are null
\* exactly when count is 0.
ChainWellLinked ==
    pc = "ready" =>
        LET forward == Forward(linkedList, heap)
        IN  /\ Len(forward) = linkedList.count
            /\ linkedList.count > 0 => forward[Len(forward)] = linkedList.tail
            /\ Backward(linkedList, heap) = Reversed(forward)
            /\ (linkedList.head = NullNode) = (linkedList.count = 0)
            /\ (linkedList.tail = NullNode) = (linkedList.count = 0)

\* A range of two Nodes inserted in front of the only Node of a list.
InsertedRangeInFront ==
    /\ pc = "ready"
    /\ ret.op = "InsertRange"
    /\ linkedList.count = 3
    /\ linkedList.head = 2
    /\ linkedList.tail = 1


\* ---------------------------------------------------------------------------
\* SparseArray<int>: the SparseNodes of the elements that were Set, kept in a
\* LinkedList, and the two lengths.
\* ---------------------------------------------------------------------------

MaxSparseLength == 4
MaxSets == 3

SparseLengthArgs == {0, MaxSparseLength}
SparseIndexArgs == 0..MaxSparseLength

\* SparseNode(data, index)
SparseNode(data, index) == [Data |-> data, Index |-> index]

\* SparseNode::Compare: by Index alone.
Compare(sparseNode1, sparseNode2) ==
    IF sparseNode1.Index > sparseNode2.Index THEN 1
    ELSE IF sparseNode1.Index < sparseNode2.Index THEN -1 ELSE 0

\* SparseArray::ValidateBoundaries(index)
SparseValidateBoundaries(array, index) == SizeLess(index, array.length)

\* The for loop of SparseArray::Set: from currentNode on, a Node of the same
\* Index is overwritten and ends the loop, a Node of a smaller Index is passed,
\* and before any other Node sparseNode is inserted at currentIndex; the loop
\* goes on after an insertion.
RECURSIVE SetLoop(_, _, _, _, _, _)
SetLoop(list, memory, sparseNode, currentNode, currentIndex, inserted) ==
    IF currentNode = NullNode
    THEN [list |-> list, heap |-> memory, inserted |-> inserted]
    ELSE IF Compare(memory[currentNode].Data, sparseNode) = 0
    THEN [list |-> list,
          heap |-> [memory EXCEPT ![currentNode].Data = sparseNode],
          inserted |-> TRUE]
    ELSE IF Compare(memory[currentNode].Data, sparseNode) = -1
    THEN SetLoop(list, memory, sparseNode,
                 memory[currentNode].next, currentIndex + 1, inserted)
    ELSE LET insertion == InsertValueOutcome(list, memory, sparseNode, currentIndex)
         IN  SetLoop(insertion.list, insertion.heap, sparseNode,
                     insertion.heap[currentNode].next, currentIndex + 1, TRUE)

\* SparseArray::Set(element, index)
SparseSetOutcome(array, memory, element, index) ==
    LET sparseNode == SparseNode(element, index)
        list == array.sparseNodes
    IN  IF ~SparseValidateBoundaries(array, index)
        THEN [array |-> array, heap |-> memory, threw |-> "out_of_range"]
        ELSE IF array.actualLength = 0
        THEN LET added == AddValueOutcome(list, memory, sparseNode)
             IN  [array |-> [array EXCEPT !.sparseNodes = added.list,
                                          !.actualLength = @ + 1],
                  heap |-> added.heap, threw |-> "none"]
        ELSE IF index = 0
        THEN IF memory[list.head].Data.Index = 0
             THEN [array |-> array,
                   heap |-> [memory EXCEPT ![list.head].Data = sparseNode],
                   threw |-> "none"]
             ELSE LET insertion == InsertValueOutcome(list, memory, sparseNode, 0)
                  IN  [array |-> [array EXCEPT !.sparseNodes = insertion.list],
                       heap |-> insertion.heap, threw |-> "none"]
        ELSE LET looped == SetLoop(list, memory, sparseNode, list.head, 0, FALSE)
                 added == IF looped.inserted
                          THEN [list |-> looped.list, heap |-> looped.heap]
                          ELSE AddValueOutcome(looped.list, looped.heap, sparseNode)
             IN  [array |-> [array EXCEPT !.sparseNodes = added.list,
                                          !.actualLength = @ + 1],
                  heap |-> added.heap, threw |-> "none"]

SparseFrame == UNCHANGED <<tableVars, dynamicArray, linkedList, reference>>

\* SparseArray(length)
NewSparseArray ==
    /\ pc = "new"
    /\ \E length \in SparseLengthArgs :
          sparseArray' = [NoSparseArray EXCEPT !.length = length]
    /\ pc' = "ready"
    /\ ret' = Call("SparseArray", <<>>, "none")
    /\ UNCHANGED <<heap, calls>>
    /\ SparseFrame

\* SparseArray::Set(element, index)
SparseSet ==
    /\ pc = "ready"
    /\ calls < MaxSets
    /\ \E element \in Elements, index \in SparseIndexArgs :
          LET outcome == SparseSetOutcome(sparseArray, heap, element, index)
          IN  /\ sparseArray' = outcome.array
              /\ heap' = outcome.heap
              /\ ret' = Call("Set", <<element, index>>, outcome.threw)
    /\ calls' = calls + 1
    /\ UNCHANGED pc
    /\ SparseFrame

SparseNext == NewSparseArray \/ SparseSet

SparseSpec == Init /\ [][SparseNext]_vars

\* The indices that have been Set: a Set with a valid index leaves a SparseNode
\* of that Index behind, and no SparseNode is ever taken away.
IndicesSet == {heap[node].Data.Index : node \in 1..Len(heap)}

\* C29: ActualLength() is the number of distinct indices that have been Set
\* with a valid index: a repeated Set of one index leaves it alone and a Set
\* of a new index raises it by one.
ActualLengthCountsIndices ==
    pc = "ready" => sparseArray.actualLength = Cardinality(IndicesSet)

\* ---------------------------------------------------------------------------
\* LinkedList<int>: one list assigned to another. The two lists, linkedList and
\* reference, have their Nodes in the same heap.
\* ---------------------------------------------------------------------------

\* LinkedList::Add(Node<T>* node) as AddNodeOutcome, gone through for at most
\* fuel Nodes. After its first turn the loop changes no next link, so with
\* more turns than the heap has Nodes it is going round and never ends.
RECURSIVE AddNodeWithin(_, _, _, _)
AddNodeWithin(list, memory, node, fuel) ==
    IF node = NullNode
    THEN [list |-> list, heap |-> memory, hung |-> FALSE]
    ELSE IF fuel = 0
    THEN [list |-> list, heap |-> memory, hung |-> TRUE]
    ELSE IF list.count = 0
         THEN AddNodeWithin([list EXCEPT !.count = 1, !.head = node, !.tail = node],
                            memory, memory[node].next, fuel - 1)
         ELSE LET linked ==
                      [memory EXCEPT
                          ![node].previous = IF @ = NullNode THEN list.tail ELSE @,
                          ![list.tail].next = node]
              IN  AddNodeWithin([list EXCEPT !.count = @ + 1, !.tail = node],
                                linked, linked[node].next, fuel - 1)

\* The loop of the copy constructor and of operator=, from currentNode on: a
\* Node that is not marked as constructed is itself added, with the Nodes
\* after it, and the Data of a constructed one is added in a new Node. Every
\* address above `allocated` is a Node this loop constructed: it lies in the
\* chain the loop adds to, so once the loop stands on one it is followed by at
\* least one more on every turn, and the loop never ends.
RECURSIVE CopyFrom(_, _, _, _)
CopyFrom(list, memory, currentNode, allocated) ==
    IF currentNode = NullNode
    THEN [list |-> list, heap |-> memory, hung |-> FALSE]
    ELSE IF currentNode > allocated
    THEN [list |-> list, heap |-> memory, hung |-> TRUE]
    ELSE IF ~memory[currentNode].isConstructed
    THEN LET added == AddNodeWithin(list, memory, currentNode, Len(memory) + 1)
         IN  IF added.hung
             THEN added
             ELSE CopyFrom(added.list, added.heap,
                           added.heap[currentNode].next, allocated)
    ELSE LET added == AddValueOutcome(list, memory, memory[currentNode].Data)
         IN  CopyFrom(added.list, added.heap,
                      added.heap[currentNode].next, allocated)

\* The first loop of operator=: every constructed Node deleted and its slot of
\* constructedNodes set to nullptr; count, head and tail stay. The storage of
\* a deleted Node holds no determinate Data any more.
Deleted(list) == {list.constructedNodes[i] : i \in 1..Len(list.constructedNodes)}

DeleteConstructed(list, memory) ==
    [list |-> [list EXCEPT
                  !.constructedNodes = [i \in 1..Len(@) |-> NullNode]],
     heap |-> [node \in 1..Len(memory) |->
                  IF node \in Deleted(list)
                  THEN [memory[node] EXCEPT !.Data = Indeterminate]
                  ELSE memory[node]]]

\* LinkedList::operator=(reference), for two different lists. With a Node to
\* copy and a deleted tail, the first Add writes tail->next into deleted
\* storage: that is undefined, and the call may fault, never return, or go on
\* with the storage as it was left.
AssignOutcomes(list, other, memory) ==
    LET deleted == DeleteConstructed(list, memory)
        copied == CopyFrom(deleted.list, deleted.heap, other.head, Len(memory))
        undefined == /\ other.head # NullNode
                     /\ list.count # 0
                     /\ list.tail \in Deleted(list)
        returned == [list |-> copied.list, heap |-> copied.heap, threw |-> "none"]
        stopped(how) == [list |-> deleted.list, heap |-> deleted.heap, threw |-> how]
    IN  IF undefined
        THEN {stopped("fault"), stopped("hang")}
                 \cup (IF copied.hung THEN {} ELSE {returned})
        ELSE IF copied.hung THEN {stopped("hang")} ELSE {returned}

AssignFrame == UNCHANGED <<tableVars, dynamicArray, sparseArray, calls>>

\* reference.Add(value)
AddToReference ==
    /\ pc = "ready"
    /\ Len(heap) < MaxNodes
    /\ \E value \in Elements :
          LET outcome == AddValueOutcome(reference, heap, value)
          IN  /\ reference' = outcome.list
              /\ heap' = outcome.heap
              /\ ret' = [op |-> "reference.Add", args |-> <<value>>, threw |-> "none"]
    /\ UNCHANGED <<pc, linkedList>>
    /\ AssignFrame

\* reference.Insert(value, index)
InsertInReference ==
    /\ pc = "ready"
    /\ Len(heap) < MaxNodes
    /\ \E value \in Elements, index \in ListIndexArgs :
          LET outcome == InsertValueOutcome(reference, heap, value, index)
          IN  /\ reference' = outcome.list
              /\ heap' = outcome.heap
              /\ ret' = ListCall("reference.Insert", outcome.threw)
    /\ UNCHANGED <<pc, linkedList>>
    /\ AssignFrame

\* linkedList = reference; the call records both lists and the heap as they
\* were before it.
Assign ==
    /\ pc = "ready"
    /\ \E outcome \in AssignOutcomes(linkedList, reference, heap) :
          /\ linkedList' = outcome.list
          /\ heap' = outcome.heap
          /\ pc' = IF outcome.threw = "none" THEN "assigned" ELSE "ended"
          /\ ret' = [op |-> "operator=", threw |-> outcome.threw,
                     list |-> linkedList, reference |-> reference, memory |-> heap]
    /\ UNCHANGED reference
    /\ AssignFrame

AssignNext ==
    NewLinkedList \/ AddToList \/ AddToReference \/ InsertInReference \/ Assign

AssignSpec == Init /\ [][AssignNext]_vars

\* C28: when the assignment of reference to another list has returned, the
\* list has the count and the head-to-tail values of reference, whatever it
\* held before, and reference is as it was: its count, its Nodes and their
\* Data and links.
AssignmentCopies ==
    pc = "assigned" =>
        /\ linkedList.count = reference.count
        /\ ListData(linkedList, heap) = ListData(reference, heap)
        /\ reference = ret.reference
        /\ Forward(reference, heap) = Forward(ret.reference, ret.memory)
        /\ \A node \in 1..Len(ret.memory) :
              (\E p \in 1..Len(Forward(ret.reference, ret.memory)) :
                    Forward(ret.reference, ret.memory)[p] = node)
                  => heap[node] = ret.memory[node]

\* ---------------------------------------------------------------------------
\* LinkedList<int>: a list constructed as the copy of another.
\* ---------------------------------------------------------------------------

\* LinkedList(reference): the members start as those of an empty list, and the
\* loop adds to it from the head of reference on.
CopyOutcome(other, memory) ==
    LET copied == CopyFrom(NoChain, memory, other.head, Len(memory))
    IN  IF copied.hung
        THEN [list |-> NoChain, heap |-> memory, threw |-> "hang"]
        ELSE [list |-> copied.list, heap |-> copied.heap, threw |-> "none"]

\* LinkedList<int> reference;
NewReference ==
    /\ pc = "new"
    /\ pc' = "ready"
    /\ reference' = NoChain
    /\ heap' = NoHeap
    /\ ret' = [op |-> "LinkedList()", threw |-> "none"]
    /\ UNCHANGED linkedList
    /\ AssignFrame

\* LinkedList<int> linkedList(reference); the call records reference and the
\* heap as they were before it.
CopyConstruct ==
    /\ pc = "ready"
    /\ LET outcome == CopyOutcome(reference, heap)
       IN  /\ linkedList' = outcome.list
           /\ heap' = outcome.heap
           /\ pc' = IF outcome.threw = "none" THEN "copied" ELSE "ended"
           /\ ret' = [op |-> "LinkedList(reference)", threw |-> outcome.threw,
                      reference |-> reference, memory |-> heap]
    /\ UNCHANGED reference
    /\ AssignFrame

CopyNext == NewReference \/ AddToReference \/ InsertInReference \/ CopyConstruct

CopySpec == Init /\ [][CopyNext]_vars

\* The Nodes of a list, from the head.
NodesOf(list, memory) ==
    {Forward(list, memory)[p] : p \in 1..Len(Forward(list, memory))}

\* C31: the construction of a list as the copy of a list built by Add(value)
\* and Insert(value, index) returns, and the copy has the count and the
\* head-to-tail values of the source and no Node in common with it, while the
\* source keeps its count, its Nodes and their Data and links.
CopyIsSeparate ==
    (ret.op = "LinkedList(reference)") =>
        /\ ret.threw = "none"
        /\ linkedList.count = reference.count
        /\ ListData(linkedList, heap) = ListData(reference, heap)
        /\ NodesOf(linkedList, heap) \cap NodesOf(reference, heap) = {}
        /\ reference = ret.reference
        /\ Forward(reference, heap) = Forward(ret.reference, ret.memory)
        /\ \A node \in NodesOf(ret.reference, ret.memory) :
              heap[node] = ret.memory[node]

\* ---------------------------------------------------------------------------
\* MurmurHashingAlgorithm: the accumulator before the loop, and the bytes the
\* loop goes through.
\* ---------------------------------------------------------------------------

\* The number of characters of n >= 0 written in decimal: the least count of
\* digits whose power of ten is above n.
DecimalCharacters(n) ==
    CHOOSE count \in 1..20 :
        /\ n < 10 ^ count
        /\ \A fewer \in 1..(count - 1) : n >= 10 ^ fewer

\* The number of binary digits of n > 0.
BitLength(n) ==
    CHOOSE count \in 1..63 :
        /\ n < 2 ^ count
        /\ n >= 2 ^ (count - 1)

\* The number a sequence of digits denotes in base 16, most significant first.
RECURSIVE DigitsValue(_)
DigitsValue(digits) ==
    IF Len(digits) = 0
    THEN 0
    ELSE 16 * DigitsValue(SubSeq(digits, 1, Len(digits) - 1)) + digits[Len(digits)]

\* C32 as stated: the accumulator starts as seed XOR the number of 4-bit
\* digits rawHashing is cut into, the ones the loop goes through.
AccumulatorFromDigitCount ==
    pc = "hashed" =>
        ret.initial = LongXor(LongOfInt(ret.seed), LongOfInt(Len(ret.bytes)))

\* C32, amended: the accumulator starts as seed XOR the number of characters
\* of rawHashing written in decimal; the number of 4-bit digits the loop goes
\* through is another number (none for 0, one for 10).
AccumulatorFromDecimalLength ==
    pc = "hashed" =>
        ret.initial =
            LongXor(LongOfInt(ret.seed), LongOfInt(DecimalCharacters(ret.rawHashing)))

\* A call whose rawHashing has two decimal characters and one 4-bit digit.
HashedTwoCharactersOneDigit ==
    /\ pc = "hashed"
    /\ ret.rawHashing = 10
    /\ Len(ret.bytes) = 1
    /\ ret.initial = LongXor(LongOfInt(ret.seed), LongOfInt(2))

\* C33: for rawHashing > 0, ToByteArray gives the digits of rawHashing in
\* base 16, most significant first: one for every 4 binary digits (rounded
\* up), each in 0..15, denoting rawHashing.
BytesAreDigits ==
    (pc = "hashed" /\ ret.rawHashing > 0) =>
        /\ Len(ret.bytes) = (BitLength(ret.rawHashing) + 3) \div 4
        /\ \A i \in 1..Len(ret.bytes) : ret.bytes[i] \in 0..15
        /\ DigitsValue(ret.bytes) = ret.rawHashing

\* ---------------------------------------------------------------------------
\* LinkedList<int>: a search that improves the list.
\* ---------------------------------------------------------------------------

\* sequence with the elements at positions p - 1 and p in each other's place.
Exchanged(sequence, p) ==
    [q \in 1..Len(sequence) |->
        IF q = p - 1 THEN sequence[p]
        ELSE IF q = p THEN sequence[p - 1] ELSE sequence[q]]

\* C34: on a list with ImprovableSearch, FindFirstNode(value) that finds a
\* match at position p (from 0) returns that Node and, for p > 0, exchanges it
\* with the Node before it: every other position, the count and the Data of
\* every Node are as before, head, tail and the next and previous links agree
\* with the new order; for p = 0 the list is as it was.
FoundMovesForward ==
    (pc = "ready" /\ ret.op = "FindFirstNode" /\ ret.list.ImprovableSearch
        /\ ret.node # NullNode) =>
        LET p == CHOOSE q \in 1..Len(ret.before) : ret.before[q] = ret.node
            forward == Forward(linkedList, heap)
        IN  /\ heap[ret.node].Data = ret.args[1]
            /\ forward = IF p = 1 THEN ret.before ELSE Exchanged(ret.before, p)
            /\ ListData(linkedList, heap) =
                  IF p = 1 THEN ret.data ELSE Exchanged(ret.data, p)
            /\ linkedList.count = ret.list.count
            /\ Len(forward) = linkedList.count
            /\ linkedList.head = forward[1]
            /\ linkedList.tail = forward[Len(forward)]
            /\ heap[linkedList.head].previous = NullNode
            /\ heap[linkedList.tail].next = NullNode
            /\ Backward(linkedList, heap) = Reversed(forward)

\* A search that found its value in the last of three Nodes and moved that
\* Node to the middle.
FoundThirdMovedToSecond ==
    /\ pc = "ready"
    /\ ret.op = "FindFirstNode"
    /\ ret.list.ImprovableSearch
    /\ Len(ret.before) = 3
    /\ ret.node = ret.before[3]
    /\ Forward(linkedList, heap) = <<ret.before[1], ret.before[3], ret.before[2]>>
    /\ linkedList.tail = ret.before[2]

\* ---------------------------------------------------------------------------
\* HashTable<int, int> built with a hashing function of the caller's: whatever
\* long it returns, Set and Get reduce it to an index of the two arrays.
\* ---------------------------------------------------------------------------

MaxCustomCalls == 2

\* LONG_MIN and LONG_MAX
LongMin == [i \in LongBytes |-> IF i = 8 THEN 128 ELSE 0]
LongMax == [i \in LongBytes |-> IF i = 8 THEN 127 ELSE 255]

\* What the caller's function returns: any long, these among them.
HashingValues == {LongOfInt(n) : n \in {-201, -7, -1, 0, 1, 7}} \cup {LongMin, LongMax}

\* 2^64 % capacity
WrapRemainder(capacity) == (LongMod([i \in LongBytes |-> 255], capacity) + 1) % capacity

\* A mutant of IndexOfHashing: the remainder of the signed division, which a
\* negative hashingValue makes zero or negative.
IndexOfHashingSigned(hashingValue, capacity) ==
    IF LongIsNegative(hashingValue)
    THEN -((WrapRemainder(capacity) + capacity - LongMod(hashingValue, capacity)) % capacity)
    ELSE LongMod(hashingValue, capacity)

\* size_t index = hashingValue % values.capacity: the long converted to
\* size_t, the remainder taken there.
IndexOfHashing(hashingValue, capacity) == LongMod(hashingValue, capacity)

\* HashTable::Set(key, value), the function returning hashingValue.
SetCustom ==
    /\ pc = "ready"
    /\ calls < MaxCustomCalls
    /\ \E key \in KeyValues, hashingValue \in HashingValues, value \in Values :
          LET index == IndexOfHashing(hashingValue, values.capacity)
              outcome == SetAt(keys, values, hashedPairCount, index, key, value)
          IN  /\ keys' = outcome.keys
              /\ values' = outcome.values
              /\ hashedPairCount' = outcome.hashedPairCount
              /\ ret' = [op |-> "Set", key |-> key, hashingValue |-> hashingValue,
                         index |-> index, threw |-> outcome.threw, value |-> value]
              /\ lastSet' = IF outcome.threw = "none"
                            THEN [lastSet EXCEPT ![key] = value]
                            ELSE lastSet
    /\ calls' = calls + 1
    /\ UNCHANGED <<pc, threshold, hashingSeed, origins>>
    /\ UNCHANGED otherVars

\* HashTable::Get(key), the function returning hashingValue.
GetCustom ==
    /\ pc = "ready"
    /\ calls < MaxCustomCalls
    /\ \E key \in KeyValues, hashingValue \in HashingValues :
          LET index == IndexOfHashing(hashingValue, values.capacity)
              outcome == GetAt(keys, values, index, key)
          IN  ret' = [op |-> "Get", key |-> key, hashingValue |-> hashingValue,
                      index |-> index, threw |-> outcome.threw, value |-> outcome.value]
    /\ calls' = calls + 1
    /\ UNCHANGED <<pc, keys, values, threshold, hashingSeed, hashedPairCount,
                   lastSet, origins>>
    /\ UNCHANGED otherVars

CustomNext == ConstructDefault \/ Construct \/ SetCustom \/ GetCustom

CustomSpec == Init /\ [][CustomNext]_vars

\* C35: whatever long the hashing function returns, negative ones included,
\* the index Set and Get compute from it is at least 0 and below the length
\* of the array of key pockets and of the array of value pockets.
IndexWithinPockets ==
    (pc = "ready" /\ ret.op \in {"Set", "Get"}) =>
        /\ ret.index \in 0..(Length(keys.array) - 1)
        /\ ret.index \in 0..(Length(values.array) - 1)
        /\ ArrayValidateBoundaries(keys.array, ret.index)
        /\ ArrayValidateBoundaries(values.array, ret.index)

\* A Set whose hashing function returned a negative long with an odd
\* remainder, and that stored its pair in pocket 1.
SetUnderNegativeHashing ==
    /\ pc = "ready"
    /\ ret.op = "Set"
    /\ ret.hashingValue = LongOfInt(-7)
    /\ ret.index = 1
    /\ ret.threw = "none"
    /\ keys.array[1] # EmptyChain

\* ---------------------------------------------------------------------------
\* HashTable<int, int>: where the pairs are, and the members no call changes.
\* ---------------------------------------------------------------------------

\* C36: in every state of a table, every stored key is in the pocket whose
\* index is the hash of the fingerprint it was Set with, under the seed of the
\* table, modulo the number of pockets, and the pocket of values at that index
\* holds its value at the position the key has in the pocket of keys.
PairsInTheirPockets ==
    pc = "ready" =>
        /\ DOMAIN origins = DOMAIN keys.array
        /\ \A index \in DOMAIN keys.array :
              /\ Len(origins[index]) = Len(keys.array[index])
              /\ Len(values.array[index]) = Len(keys.array[index])
              /\ \A p \in 1..Len(origins[index]) :
                    BucketIndex(origins[index][p], hashingSeed, Length(keys.array)) = index
        /\ (ret.op = "Set" /\ ret.threw = "none") =>
              LET index == BucketIndex(ret.address, hashingSeed, Length(keys.array))
              IN  \E p \in 1..Len(keys.array[index]) :
                      /\ keys.array[index][p] = ret.key
                      /\ values.array[index][p] = ret.value
                      /\ \A q \in 1..(p - 1) : keys.array[index][q] # ret.key

\* A table with a pocket of two pairs, the second Set last.
TwoPairsInOnePocket ==
    /\ pc = "ready"
    /\ ret.op = "Set"
    /\ ret.threw = "none"
    /\ \E index \in DOMAIN keys.array :
          /\ Len(keys.array[index]) = 2
          /\ keys.array[index][2] = ret.key
          /\ values.array[index][2] = ret.value

=============================================================================
